---- MODULE Spec2Model ----
(***************************************************************************)
(* Verification model of the grid-model builder (powerflow.dataminer) and  *)
(* of the analysis package (powerflow.analysis) with its command line.     *)
(*                                                                         *)
(* The machines of the module and their specifications:                    *)
(*   SpecDecomp  - Connection.__init__: circuit decomposition of a record  *)
(*   SpecTopo    - main(): endpoint resolution, depth-first island filter, *)
(*                 deletion, table output and reference test               *)
(*   SpecRerun   - the endpoint resolution loop of main(), run twice       *)
(*   SpecSub     - Substation / Transformer registry                       *)
(*   SpecOPF     - OPFEngine.run_scenario / _apply_scenario                *)
(*   SpecLoad    - Connection.load_from_json / Substation.load_from_json   *)
(*   SpecChecker - NetworkValidityChecker.check_and_fix                    *)
(*   SpecCache   - GridModeler.create_base_network and its cache file      *)
(*   SpecCli     - powerflow.__main__: command list completion and run     *)
(*   SpecSolver  - PowerFlowSolver.solve                                   *)
(*   SpecTwice   - check_and_fix with a pass applied a second time         *)
(*   SpecChain   - the endpoint resolution over a chain of close points    *)
(*   SpecReplace - the Substation / Transformer registry, ids repeating    *)
(*   SpecSolveOpf - OPFEngine._solve_opf                                   *)
(*   SpecRegistry - the registries under the constructors                  *)
(* A specification leaves the variables of the other machines untouched.   *)
(***************************************************************************)
EXTENDS Integers, Sequences, FiniteSets, TLC

VARIABLES
    rec,        \* the raw record handed to Connection.__init__
    conn        \* the constructor's locals and the object under construction

dvars == <<rec, conn>>

VARIABLES
    tpc,              \* position of main(): "resolve", "dfs", "delete", "test", ...
    conns,            \* Connection._all: id -> [startPoint, endPoint, startNode, endNode]
    connpoint_list,   \* Connection.connpoint_list
    connpoint_map,    \* Connection.connpoint_map: point -> ordered dict conn id -> end type
    search_result,    \* what the two search trees built before the loop answer for a point,
                      \* known once the point was asked for: point -> [pool, sub], the pool
                      \* of Connection.search and subs[0] of the sorted Substation.search
    nodes,            \* Node._all: id -> [type, coords, connections]
    ci,               \* index of the resolution loop into connpoint_list
    pass,             \* 1 in main(); 2 while the endpoint list is processed again
    after_first,      \* registries as the first pass left them (for the second pass)
    unvisited_nodes,  \* island filter: unvisited_nodes
    unvisited_conns,  \* island filter: unvisited_conns
    current_node_stack,
    deleted_subs,     \* Substation._deleted_subs, written to deleted_subs.txt
    deleted_conns,    \* Connection._deleted_conns, written to deleted_conns.txt
    node_voltages     \* Node.voltages: node id -> the set of its voltages

tvars == <<tpc, conns, connpoint_list, connpoint_map, search_result, nodes, ci, pass, after_first,
           unvisited_nodes, unvisited_conns, current_node_stack,
           deleted_subs, deleted_conns, node_voltages>>

VARIABLES
    substations,      \* Node._all, the substations: id -> [voltages, transformers]
    Transformer_all   \* Transformer._all: id -> [sub, hv_v, lv_v]

svars == <<substations, Transformer_all>>

VARIABLES
    heap,                     \* the network objects: reference -> tables
    base_net,                 \* OPFEngine.base_net, a reference
    scenario_net,             \* OPFEngine.scenario_net, a reference or None
    scenario_info,            \* OPFEngine.scenario_info
    current_scenario_name,    \* OPFEngine.current_scenario_name
    current_scenario_config,  \* OPFEngine.current_scenario_config
    returned,                 \* what the last call handed to its caller
    initial_net,              \* the tables of the base network when the engine was built
    opf_logs                  \* the scenarios that have an opf_log.txt in the output directory

ovars == <<heap, base_net, scenario_net, scenario_info, current_scenario_name,
           current_scenario_config, returned, initial_net, opf_logs>>

VARIABLES
    loader,       \* the class whose load_from_json runs
    raw_items,    \* the list json.load returned
    li,           \* index of the for loop over raw_items
    lpc,          \* "next" between iterations, "init" inside the constructor,
                  \* "exited" after exit(), "returned" after the loop
    loaded,       \* the places in raw_items of the records registered in _all, in order
    handled       \* per finished iteration: what the constructor raised and what the
                  \* try statement did with it

lvars == <<loader, raw_items, li, lpc, loaded, handled>>

VARIABLES
    checked_net,       \* NetworkValidityChecker.net: the tables bus, line, trafo, gen, sgen,
                       \* load, ext_grid
    issues_found,      \* NetworkValidityChecker.issues_found
    skipped_elements,  \* NetworkValidityChecker.skipped_elements (the indices)
    kpc,               \* the pass check_and_clean runs next, "returned" after it
    check_result       \* what check_and_clean returned

kvars == <<checked_net, issues_found, skipped_elements, kpc, check_result>>

VARIABLES
    cache_file,      \* the file at cache_path: [exists], [readable] and, when it unpickles,
                     \* [pair], the (base_net, ext_grid_list) it holds
    force_rebuild,   \* config.FORCE_NETWORK_REBUILD
    raw_data,        \* the CSV files in DATA_DIR: 0 when a required file is missing,
                     \* else the version of the data
    modeler,         \* the GridModeler: [base_net, ext_grid_list]; base_net 0 is None
    cb_calls,        \* calls of create_base_network made
    cb_result        \* the last call: whether it rebuilt, how it ended, the pair returned

cvars == <<cache_file, force_rebuild, raw_data, modeler, cb_calls, cb_result>>

VARIABLES
    command_test,    \* command_info[c]['test'] of each command: its output file exists
    requested,       \* args.commands as parsed
    commands,        \* the command list, completed in place
    target_command,  \* commands[-1] before the completion
    insert_counter,  \* where the next missing command is inserted (0-based)
    fill_i,          \* position of the completion loop in command_info (1-based)
    executed,        \* the commands whose function has been called, in order
    mpc              \* "fill", "run", "done", "raised"

mvars == <<command_test, requested, commands, target_command, insert_counter, fill_i,
           executed, mpc>>

VARIABLES
    config,          \* the names the config module defines that solve() reads
    silent,          \* PowerFlowSolver.silent
    self_converged,  \* PowerFlowSolver.converged
    algorithm_used,  \* PowerFlowSolver.algorithm_used: <<>> is None, <<alg>>, <<alg, suffix>>
    attempts,        \* the attempts made so far: [alg, settings, outcome]
    alg_i,           \* position in the loop of the current phase (1-based)
    solve_result,    \* "True" or "False" as returned, "AttributeError" when solve()
                     \* raised, "none" before
    spc              \* "new", "standard", "relaxed", "dc", "failed", "ended"

pvars == <<config, silent, self_converged, algorithm_used, attempts, alg_i, solve_result, spc>>

VARIABLES
    opf_net,         \* what _solve_opf reads of self.scenario_net: converged,
                     \* OPF_converged ("True" / "False") and res_cost
                     \* ("absent", "nan" or "number")
    init_mode,       \* 'results' or 'flat', "none" before the warm start
    solver_report,   \* how pp.runopp ended: "converged", "not_converged", "raised"
    opf_result,      \* "True" or "False" as _solve_opf returned, "none" before
    solves,          \* calls of _solve_opf made by this run_scenario
    qpc              \* "warm_start", "runopp", "returned"

qvars == <<opf_net, init_mode, solver_report, opf_result, solves, qpc>>

VARIABLES
    sub_point_list,  \* Substation._point_list
    sub_point_map,   \* Substation._point_map: point -> the ids appended at it
    construction     \* the last constructor call: its class and what it raised

rvars == <<sub_point_list, sub_point_map, construction>>

\* the variables of the machines other than the four above
xvars == <<lvars, kvars, cvars, mvars, pvars, qvars, rvars>>

\* what the loaders, the validity checker and the cache leave alone
outsideLoad    == <<tvars, svars, ovars, kvars, cvars, mvars, pvars, qvars, rvars>>
outsideChecker == <<dvars, tvars, svars, ovars, lvars, cvars, mvars, pvars, qvars, rvars>>
outsideCache   == <<dvars, tvars, svars, ovars, lvars, kvars, mvars, pvars, qvars, rvars>>
outsideCli     == <<dvars, tvars, svars, ovars, lvars, kvars, cvars, pvars, qvars, rvars>>
outsideSolveOpf == <<dvars, tvars, svars, ovars, lvars, kvars, cvars, mvars, pvars, rvars>>
outsideRegistry == <<dvars, ovars, lvars, kvars, cvars, mvars, pvars, qvars>>
outsideSolver  == <<dvars, tvars, svars, ovars, lvars, kvars, cvars, mvars, qvars, rvars>>

vars == <<dvars, tvars, svars, ovars, xvars>>

(***************************************************************************)
(* Generic helpers                                                         *)
(***************************************************************************)
Range(s) == {s[i] : i \in DOMAIN s}

RECURSIVE SumSeq(_)
SumSeq(s) == IF s = <<>> THEN 0 ELSE Head(s) + SumSeq(Tail(s))

Max2(a, b) == IF a >= b THEN a ELSE b
Min2(a, b) == IF a <= b THEN a ELSE b

\* index of the first occurrence of x in s (list.index / dict insertion order)
IndexOf(s, x) == CHOOSE i \in DOMAIN s : s[i] = x /\ \A j \in 1..(i-1) : s[j] # x

\* list.remove(x): drops the first occurrence
RemoveFirst(s, x) ==
    LET i == IndexOf(s, x)
    IN  [k \in 1..(Len(s)-1) |-> IF k < i THEN s[k] ELSE s[k+1]]

\* Python's round(a / b) for integers a and b > 0: round half to even
RoundDiv(a, b) ==
    LET q == a \div b
        r == a % b
    IN  IF 2 * r < b THEN q
        ELSE IF 2 * r > b THEN q + 1
        ELSE IF q % 2 = 0 THEN q ELSE q + 1

(***************************************************************************)
(* Circuit decomposition: Connection.__init__                              *)
(* Frequencies are kept in hundredths of a hertz: "50" is 5000, "16.7" is  *)
(* 1670, "16.67" is 1667, "0" is 0.  A raw field that is None is <<>>.     *)
(***************************************************************************)
F50   == 5000
F167  == 1670
F1667 == 1667
F0    == 0
F60   == 60 * 100     \* a frequency that Connection.f2p does not list

RailVoltage == 15000
StdVoltages == {110000, 220000, 380000}

\* Connection.f2p
f2pKeys == {F50, F167, F1667, F0}
f2p(f) == CASE f = F50   -> 3
            [] f = F167  -> 2
            [] f = F1667 -> 2
            [] f = F0    -> 1

\* maps circuit index to voltage index: sum([[i]*cc for i,cc in enumerate(l)], [])
\* (zero-based voltage indices, as in the source)
RECURSIVE Ci2viFrom(_, _)
Ci2viFrom(l, i) ==
    IF l = <<>> THEN <<>>
    ELSE [k \in 1..Max2(Head(l), 0) |-> i] \o Ci2viFrom(Tail(l), i + 1)
\* a round-robin split, as if no per-position counts were known
Ci2viRoundRobin(l) == [k \in 1..SumSeq(l) |-> (k - 1) % Len(l)]
Ci2vi(l) == Ci2viFrom(l, 0)

\* {f: circuits_list[i % len(circuits_list)] for i, f in enumerate(frequencies)}
\* a repeated key keeps the value of its last occurrence
RemainingByF(frequencies, circuits_list) ==
    [f \in Range(frequencies) |->
        LET i == CHOOSE i \in DOMAIN frequencies :
                    frequencies[i] = f /\ \A j \in DOMAIN frequencies : frequencies[j] = f => j <= i
        IN  circuits_list[((i - 1) % Len(circuits_list)) + 1]]

\* max(d, key=d.get): the first key, in insertion order, that has the largest value
FirstMaxKey(frequencies, d) ==
    LET i == CHOOSE i \in DOMAIN frequencies :
                /\ \A j \in DOMAIN frequencies : d[frequencies[j]] <= d[frequencies[i]]
                /\ \A j \in 1..(i-1) : d[frequencies[j]] < d[frequencies[i]]
    IN  frequencies[i]

\* cables per circuit: c_cables = max(phases, phases * target_cpp)
CCablesBroken(phases, target_cpp) == Max2(phases, target_cpp)
CCables(phases, target_cpp) == Max2(phases, phases * target_cpp)

\* filter_f(c) of the caller (scenarioFilter): item.max_v() >= scenario['min_voltage'];
\* filter_f = None is a filter that is not given
FilterPasses(filter, v) == filter.given /\ v >= filter.min_voltage

NoConn == [pc |-> "idle"]

\* line 244 with the test of the voltages left out
IsErroneousZeroByCablesOnly(cables, circuits, voltages) ==
    (cables \div (IF circuits # 0 THEN circuits ELSE 1)) = 3

\* line 244: a frequency field "0" on what looks like a three-phase connection
IsErroneousZero(cables, circuits, voltages) ==
    /\ (cables \div (IF circuits # 0 THEN circuits ELSE 1)) = 3
    /\ \E i \in DOMAIN voltages : voltages[i] \in StdVoltages

\* Lines 205-315: everything before the consumption loop
Preamble(r) ==
    LET voltages0     == r.voltages
        voltages      == SelectSeq(voltages0, LAMBDA v : v # RailVoltage)
        frequencies0  == IF r.frequency # <<>> THEN r.frequency ELSE <<F50>>
        cables_list   == r.cables
        circuits_list0 == r.circuits
        cables0       == SumSeq(cables_list)
        circuits0     == SumSeq(circuits_list0)
        isZero        == r.frequency = <<F0>>
        erroneous     == isZero /\ IsErroneousZero(cables0, circuits0, voltages)
        frequencies   == IF erroneous THEN <<F50>> ELSE frequencies0
        type          == IF isZero /\ ~erroneous
                         THEN (IF r.type = "LINE" THEN "HVDC_LINE" ELSE "HVDC_CABLE")
                         ELSE r.type
        \* lines 255-264
        tryCables     == Len(cables_list) > 1 /\ Len(circuits_list0) <= 1
        cc            == [i \in 1..Len(SelectSeq(cables_list, LAMBDA c : c % 3 = 0)) |->
                            SelectSeq(cables_list, LAMBDA c : c % 3 = 0)[i] \div 3]
        takeCables    == tryCables /\ SumSeq(cc) >= circuits0 /\ Len(cc) = Len(cables_list)
        circuits_list1 == IF takeCables THEN cc ELSE circuits_list0
        circuits1     == IF takeCables THEN SumSeq(cc)
                         ELSE IF tryCables /\ circuits0 = 0 THEN Len(cables_list)
                         ELSE circuits0
        \* lines 267-273
        circuits2     == IF cables0 # 0
                         THEN (IF circuits1 # 0 THEN circuits1 ELSE cables0 \div 3)
                         ELSE IF circuits1 # 0 THEN circuits1 ELSE 1
        cables2       == IF cables0 # 0 THEN cables0
                         ELSE IF circuits1 # 0 THEN circuits1 * 3 ELSE 3
        circuits_list == IF circuits_list1 # <<>> THEN circuits_list1 ELSE <<circuits2>>
        num_circuits  == Max2(circuits2, Max2(Len(voltages), Len(frequencies)))
    IN  IF Len(voltages0) < 1 \/ Len(voltages) < 1
           THEN [pc |-> "NoVoltageError"]
        ELSE IF circuits0 # 0 /\ Len(cables_list) > circuits0
           THEN [pc |-> "CircuitCountError"]
        ELSE [ pc                 |-> "loop",
               type               |-> type,
               voltages           |-> voltages,
               frequencies        |-> frequencies,
               cables             |-> cables2,
               circuits_list      |-> circuits_list,
               num_circuits       |-> num_circuits,
               remaining_cables   |-> cables2,
               remaining_circuits |-> num_circuits,
               vi                 |-> 0,
               fi                 |-> 0,
               by_f               |-> RemainingByF(frequencies, circuits_list),
               unused             |-> frequencies,
               emitted            |-> <<>>,
               circuits           |-> <<>> ]

\* Lines 326-369: the frequency of the next circuit; "drop" is the earth-wire
\* branch, "none" the PowerFrequencyError branch
ChooseF(c, r) ==
    LET rc    == c.remaining_cables
        freqs == c.frequencies
        flist == IF c.unused # <<>> THEN c.unused ELSE freqs
    IN  IF rc % 3 = 0 /\ rc % 2 = 0
           THEN IF Len(c.circuits_list) > 1 /\ Len(freqs) > 1
                THEN [kind |-> "f", f |-> FirstMaxKey(freqs, c.by_f), rr |-> FALSE]
                ELSE [kind |-> "f", f |-> flist[(c.fi % Len(flist)) + 1], rr |-> TRUE]
        ELSE IF F50 \in Range(freqs) /\ (rc % 3 = 0 \/ rc % 2 # 0)
           THEN [kind |-> "f", f |-> F50, rr |-> FALSE]
        ELSE IF F0 \in Range(freqs)
           THEN [kind |-> "f", f |-> F0, rr |-> FALSE]
        ELSE IF r.frequency = <<>> /\ rc % 2 = 0
           THEN [kind |-> "f", f |-> F167, rr |-> FALSE]
        ELSE IF (\E i \in DOMAIN freqs : 0 < freqs[i] /\ freqs[i] < F50) /\ rc % 2 = 0
           THEN [kind |-> "f",
                 f |-> freqs[CHOOSE i \in DOMAIN freqs :
                                /\ 0 < freqs[i] /\ freqs[i] < F50
                                /\ \A j \in 1..(i-1) : ~(0 < freqs[j] /\ freqs[j] < F50)],
                 rr |-> FALSE]
        ELSE IF (rc - 1) % 3 = 0
           THEN [kind |-> "drop"]
        ELSE [kind |-> "none"]

\* Lines 372-419: one circuit is built and the counters are advanced
EmitCircuit(c, r, ch) ==
    LET f        == ch.f
        phases   == f2p(f)
        fi2      == IF ch.rr THEN c.fi + 1 ELSE c.fi
        unused2  == IF f \in Range(c.unused) THEN RemoveFirst(c.unused, f) ELSE c.unused
        by_f2    == IF f \in DOMAIN c.by_f
                    THEN [c.by_f EXCEPT ![f] = @ - 1] ELSE c.by_f
        multi    == Len(c.circuits_list) > 1
        ci2vi    == Ci2vi(c.circuits_list)
        usesV    == phases \in {3, 1}
        idxFails == usesV /\ multi /\ c.vi + 1 > Len(ci2vi)
        idx      == IF multi THEN ci2vi[c.vi + 1] ELSE c.vi
        voltage  == IF usesV THEN c.voltages[(idx % Len(c.voltages)) + 1] ELSE RailVoltage
        max_cpp  == c.remaining_cables \div phases
        target0  == RoundDiv(max_cpp, c.remaining_circuits)
        capped   == multi /\ Len(c.frequencies) > 1
        fpos     == IndexOf(c.frequencies, f)
        capFails == capped /\ (f \notin Range(c.frequencies) \/ fpos > Len(c.circuits_list))
        target   == IF capped THEN Min2(target0, c.circuits_list[fpos]) ELSE target0
        c_cables == CCables(phases, target)
        circ     == [voltage |-> voltage, frequency |-> f, phases |-> phases,
                     cables |-> c_cables, systems |-> c_cables \div phases,
                     vidx |-> IF usesV THEN idx ELSE -1]
    IN  IF f \notin f2pKeys THEN [pc |-> "KeyError"]
        ELSE IF idxFails \/ capFails THEN [pc |-> "IndexError"]
        ELSE IF c_cables % phases # 0 THEN [pc |-> "CablesPerPhaseError"]
        ELSE [c EXCEPT
                !.fi = fi2, !.unused = unused2, !.by_f = by_f2,
                !.vi = IF usesV THEN c.vi + 1 ELSE c.vi,
                !.emitted = Append(@, circ),
                !.circuits = IF FilterPasses(r.filter, circ.voltage)
                             THEN Append(@, circ) ELSE @,
                !.remaining_cables = @ - c_cables,
                !.remaining_circuits = @ - 1]

\* the topology machine at rest (specifications that do not run it)
TopoIdle ==
    /\ tpc = "idle"
    /\ conns = <<>> /\ connpoint_list = <<>> /\ connpoint_map = <<>> /\ nodes = <<>>
    /\ search_result = <<>>
    /\ ci = 0 /\ pass = 0 /\ after_first = <<>>
    /\ unvisited_nodes = {} /\ unvisited_conns = {} /\ current_node_stack = <<>>
    /\ deleted_subs = {} /\ deleted_conns = {} /\ node_voltages = <<>>

\* the decomposition at rest
DecompIdle == rec = <<>> /\ conn = NoConn

\* the substation registry at rest
SubIdle == substations = <<>> /\ Transformer_all = <<>>

\* the OPF engine at rest
OpfIdle ==
    /\ heap = <<>> /\ base_net = 0 /\ scenario_net = 0 /\ scenario_info = <<>>
    /\ current_scenario_name = "None" /\ current_scenario_config = <<>>
    /\ returned = <<>> /\ initial_net = <<>> /\ opf_logs = {}

\* the loaders at rest
LoadIdle ==
    /\ loader = "None" /\ raw_items = <<>> /\ li = 0 /\ lpc = "idle"
    /\ loaded = <<>> /\ handled = <<>>

\* the validity checker at rest
CheckerIdle ==
    /\ checked_net = <<>> /\ issues_found = <<>> /\ skipped_elements = <<>>
    /\ kpc = "idle" /\ check_result = <<>>

\* no GridModeler exists
CacheIdle ==
    /\ cache_file = <<>> /\ force_rebuild = FALSE /\ raw_data = 0
    /\ modeler = <<>> /\ cb_calls = 0 /\ cb_result = <<>>

\* the command line has not been parsed
CliIdle ==
    /\ command_test = <<>> /\ requested = <<>> /\ commands = <<>> /\ target_command = ""
    /\ insert_counter = 0 /\ fill_i = 0 /\ executed = <<>> /\ mpc = "idle"

\* no PowerFlowSolver exists
SolverIdle ==
    /\ config = <<>> /\ silent = FALSE /\ self_converged = FALSE /\ algorithm_used = <<>>
    /\ attempts = <<>> /\ alg_i = 0 /\ solve_result = "none" /\ spc = "idle"

\* OPFEngine._solve_opf has not been called
SolveOpfIdle ==
    /\ opf_net = <<>> /\ init_mode = "none" /\ solver_report = "none"
    /\ opf_result = "none" /\ solves = 0 /\ qpc = "idle"

\* no constructor has been called
RegistryIdle ==
    /\ sub_point_list = <<>> /\ sub_point_map = <<>>
    /\ construction = [class |-> "none", raised |-> "none"]

\* the machines other than the four above at rest
XIdle ==
    /\ LoadIdle /\ CheckerIdle /\ CacheIdle /\ CliIdle /\ SolverIdle /\ SolveOpfIdle
    /\ RegistryIdle

(***************************************************************************)
(* The records the decomposition is run on.  A field is the list of the   *)
(* numbers of its ';'-separated string; <<>> is a field that is None.      *)
(***************************************************************************)
MaxCables   == 12     \* largest single cable count
MaxCircuits == 4      \* largest single circuit count
MaxSplit    == 2      \* largest entry of a two-valued circuits field

VoltageLists ==
    { <<>>, <<15000>>, <<380000>>, <<110000>>, <<380000, 220000>>,
      <<220000, 15000>>, <<380000, 220000, 110000>>, <<525000>> }

FrequencyFields ==
    { <<>>, <<F50>>, <<F0>>, <<F167>>, <<F60>>, <<F50, F167>>, <<F50, F0>>, <<F167, F50>> }

SplitCables == {0, 1, 3, 4, 6, 9}

CircuitFields ==
    {<<>>} \cup {<<n>> : n \in 0..MaxCircuits}
           \cup {<<a, b>> : a \in 1..MaxSplit, b \in 1..MaxSplit}

CableFields ==
    {<<>>} \cup {<<n>> : n \in 0..MaxCables}
           \cup {<<a, b>> : a \in SplitCables, b \in SplitCables}

Filters == { [given |-> FALSE, min_voltage |-> 0],
             [given |-> TRUE,  min_voltage |-> 0],
             [given |-> TRUE,  min_voltage |-> 200000] }

\* the records of lines, and the records of cables with the frequency field "0"
Records ==
    [ voltages : VoltageLists, frequency : FrequencyFields, circuits : CircuitFields,
      cables : CableFields, filter : Filters, type : {"LINE"} ]
    \cup
    [ voltages : VoltageLists, frequency : {<<F0>>}, circuits : CircuitFields,
      cables : CableFields, filter : Filters, type : {"CABLE"} ]

InitDecomp ==
    /\ rec \in Records
    /\ conn = NoConn
    /\ TopoIdle /\ SubIdle /\ OpfIdle /\ XIdle

\* Connection.__init__ up to the loop head
Construct ==
    /\ conn.pc = "idle"
    /\ conn' = Preamble(rec)
    /\ UNCHANGED <<rec, tvars, svars, ovars, xvars>>

\* one pass of the while loop that builds a circuit
EmitStep ==
    /\ conn.pc = "loop"
    /\ conn.remaining_circuits > 0
    /\ ChooseF(conn, rec).kind = "f"
    /\ conn' = EmitCircuit(conn, rec, ChooseF(conn, rec))
    /\ UNCHANGED <<rec, tvars, svars, ovars, xvars>>

\* one pass of the while loop that drops a presumed earth wire and continues
DropEarthWire ==
    /\ conn.pc = "loop"
    /\ conn.remaining_circuits > 0
    /\ ChooseF(conn, rec).kind = "drop"
    /\ conn' = [conn EXCEPT !.remaining_cables = @ - 1]
    /\ UNCHANGED <<rec, tvars, svars, ovars, xvars>>

\* one pass of the while loop that raises PowerFrequencyError
FrequencyError ==
    /\ conn.pc = "loop"
    /\ conn.remaining_circuits > 0
    /\ ChooseF(conn, rec).kind = "none"
    /\ conn' = [pc |-> "PowerFrequencyError"]
    /\ UNCHANGED <<rec, tvars, svars, ovars, xvars>>

\* the end of the constructor without the test of lines 421-422
FinishUnchecked ==
    /\ conn.pc = "loop"
    /\ conn.remaining_circuits <= 0
    /\ conn' = [conn EXCEPT !.pc = "registered"]
    /\ UNCHANGED <<rec, tvars, svars, ovars, xvars>>

\* lines 421-474: after the loop
Finish ==
    /\ conn.pc = "loop"
    /\ conn.remaining_circuits <= 0
    /\ conn' = IF Len(conn.circuits) < 1
               THEN [pc |-> "NoValidCircuitError"]
               ELSE IF rec.filter.given
                       /\ ~(\E i \in DOMAIN conn.circuits :
                                FilterPasses(rec.filter, conn.circuits[i].voltage))
               THEN [pc |-> "FilteredItem"]
               ELSE [conn EXCEPT !.pc = "registered"]
    /\ UNCHANGED <<rec, tvars, svars, ovars, xvars>>

NextDecomp == Construct \/ EmitStep \/ DropEarthWire \/ FrequencyError \/ Finish

SpecDecomp == InitDecomp /\ [][NextDecomp]_vars

(***************************************************************************)
(* The loaders: TransmissionLine.load_from_json,                           *)
(* TransmissionCable.load_from_json and Substation.load_from_json.         *)
(* An iteration of the two connection loaders runs Connection.__init__     *)
(* (the decomposition above) on the record and then its try statement;     *)
(* an iteration of the substation loader is one step.                      *)
(***************************************************************************)
MaxBatch == 2         \* records in a file

\* the two ids the handlers name, and the id of any other record
LineIdExcused  == 1445957438
CableIdExcused == 378369401
OtherId        == 7 * 1

\* properties of the connection records of a file: one per way the constructor ends
RawProps ==
    { [voltages |-> <<380000>>,         frequency |-> <<F50>>,  circuits |-> <<1>>, cables |-> <<3>>],
      [voltages |-> <<380000, 110000>>, frequency |-> <<>>,     circuits |-> <<2>>, cables |-> <<6>>],
      [voltages |-> <<15000>>,          frequency |-> <<F167>>, circuits |-> <<1>>, cables |-> <<2>>],
      [voltages |-> <<110000>>,         frequency |-> <<F50>>,  circuits |-> <<1>>, cables |-> <<3, 3>>],
      [voltages |-> <<110000>>,         frequency |-> <<F167>>, circuits |-> <<1>>, cables |-> <<5>>],
      [voltages |-> <<110000>>,         frequency |-> <<F167>>, circuits |-> <<2>>, cables |-> <<7>>],
      [voltages |-> <<110000>>,         frequency |-> <<F60>>,  circuits |-> <<1>>, cables |-> <<6>>] }

\* Cables3w: the 'Cables' text of the record is "3w", which int() does not take
RawConnections ==
    [Id : {OtherId}, Cables3w : {FALSE}, properties : RawProps]
    \cup [Id : {LineIdExcused}, Cables3w : {FALSE},
          properties : {p \in RawProps : p.cables = <<3, 3>>}]
    \cup [Id : {CableIdExcused, OtherId}, Cables3w : {TRUE},
          properties : {p \in RawProps : p.voltages = <<380000>>}]

\* Virtual: the 'Id' text starts with 'way/Vir'; KV: the KV<n> flags that are true
RawSubstations == [Virtual : BOOLEAN, KV : {{}, {110}, {110, 380}}]

Batches(S) == UNION {[1..n -> S] : n \in 1..MaxBatch}

InitLoad ==
    /\ loader \in {"TransmissionLine", "TransmissionCable", "Substation"}
    /\ raw_items \in (IF loader = "Substation" THEN Batches(RawSubstations)
                      ELSE Batches(RawConnections))
    /\ rec \in [filter : Filters]
    /\ conn = NoConn
    /\ li = 1 /\ lpc = "next" /\ loaded = <<>> /\ handled = <<>>
    /\ TopoIdle /\ SubIdle /\ OpfIdle /\ CheckerIdle /\ CacheIdle /\ CliIdle /\ SolverIdle /\ SolveOpfIdle /\ RegistryIdle

\* the record Connection.__init__ gets from TransmissionLine / TransmissionCable
RecordOf(item, cls, filter) ==
    [ voltages |-> item.properties.voltages, frequency |-> item.properties.frequency,
      circuits |-> item.properties.circuits, cables |-> item.properties.cables,
      filter |-> filter, type |-> IF cls = "TransmissionLine" THEN "LINE" ELSE "CABLE" ]

\* connection.py 205-315 for a raw record: int() of the cables text (line 228) comes
\* after the two NoVoltageError tests
PreambleRaw(item, r) ==
    IF item.Cables3w /\ Preamble(r).pc # "NoVoltageError"
    THEN [pc |-> "ValueError"] ELSE Preamble(r)

\* the for statement takes the next record and the constructor runs to the loop head
TakeRecord ==
    /\ lpc = "next" /\ loader # "Substation"
    /\ li <= Len(raw_items)
    /\ LET r == RecordOf(raw_items[li], loader, rec.filter)
       IN  /\ rec' = r
           /\ conn' = PreambleRaw(raw_items[li], r)
    /\ lpc' = "init"
    /\ UNCHANGED <<loader, raw_items, li, loaded, handled, outsideLoad>>

\* the except clauses of TransmissionLine.load_from_json: what to do with `raised`
LineHandler(raised, item) ==
    CASE raised = "registered" -> "next"
      [] raised \in {"FilteredItem", "NoValidCircuitError", "NoVoltageError",
                     "PowerFrequencyError"} -> "continue"
      [] raised = "CircuitCountError" ->
            IF item.Id = LineIdExcused THEN "continue" ELSE "exit"
      [] OTHER -> "exit"

\* the except clauses of TransmissionCable.load_from_json
CableHandler(raised, item) ==
    CASE raised = "registered" -> "next"
      [] raised \in {"FilteredItem", "NoValidCircuitError", "NoVoltageError",
                     "PowerFrequencyError"} -> "continue"
      [] OTHER -> IF item.Id = CableIdExcused /\ item.Cables3w THEN "continue" ELSE "exit"

\* the constructor has returned or raised: the try statement of the loader
HandleOutcome ==
    /\ lpc = "init"
    /\ conn.pc \notin {"idle", "loop"}
    /\ LET did == IF loader = "TransmissionLine" THEN LineHandler(conn.pc, raw_items[li])
                  ELSE CableHandler(conn.pc, raw_items[li])
       IN  /\ handled' = Append(handled, [raised |-> conn.pc, did |-> did])
           /\ loaded' = IF conn.pc = "registered" THEN Append(loaded, li) ELSE loaded
           /\ lpc' = IF did = "exit" THEN "exited" ELSE "next"
           /\ li' = IF did = "exit" THEN li ELSE li + 1
    /\ conn' = NoConn
    /\ rec' = [filter |-> rec.filter]
    /\ UNCHANGED <<loader, raw_items, outsideLoad>>

\* Substation.__init__ (node.py 176-207) as far as it can raise
SubstationRaises(item, filter) ==
    LET db_voltages == {1000 * k : k \in item.KV}
        max_v == CHOOSE v \in db_voltages : \A w \in db_voltages : w <= v
    IN  IF db_voltages = {} THEN "NoVoltageError"
        ELSE IF filter.given /\ max_v < filter.min_voltage THEN "FilteredItem"
        ELSE "registered"

\* one iteration of Substation.load_from_json
LoadSubstation ==
    /\ lpc = "next" /\ loader = "Substation"
    /\ li <= Len(raw_items)
    /\ LET item   == raw_items[li]
           raised == IF item.Virtual THEN "none" ELSE SubstationRaises(item, rec.filter)
           did    == CASE raised = "registered" -> "next"
                       [] raised \in {"none", "FilteredItem", "NoVoltageError"} -> "continue"
                       [] OTHER -> "exit"
       IN  /\ handled' = Append(handled, [raised |-> raised, did |-> did])
           /\ loaded' = IF raised = "registered" THEN Append(loaded, li) ELSE loaded
           /\ lpc' = IF did = "exit" THEN "exited" ELSE "next"
           /\ li' = IF did = "exit" THEN li ELSE li + 1
    /\ UNCHANGED <<loader, raw_items, dvars, outsideLoad>>

\* the for statement is exhausted
ReturnFromLoader ==
    /\ lpc = "next"
    /\ li > Len(raw_items)
    /\ lpc' = "returned"
    /\ UNCHANGED <<loader, raw_items, li, loaded, handled, dvars, outsideLoad>>

NextLoad ==
    \/ TakeRecord \/ EmitStep \/ DropEarthWire \/ FrequencyError \/ Finish
    \/ HandleOutcome \/ LoadSubstation \/ ReturnFromLoader

SpecLoad == InitLoad /\ [][NextLoad]_vars

(***************************************************************************)
(* Topology: main() from the resolution loop to the reference test.        *)
(* Points lie on one meridian and are given in whole metres along it, so   *)
(* the tree searches and Coords.distance_to all order points by |a - b|;   *)
(* a metre is coarser than the precision Coords.round() keeps, so rounding *)
(* maps every point of the model to itself.  None is <<>>.                 *)
(* Node ids are tuples: <<"sub", k>> for the substation of record k and    *)
(* <<"br", c1, .., cn>> or <<"br", c1, .., cn, nr>> for "br_c1_.._cn[_nr]".*)
(***************************************************************************)
MAX_DISTANCE_BRANCH_M     == 10
MAX_DISTANCE_SUBSTATION_M == 500

None == <<>>

Dist(a, b) == IF a >= b THEN a - b ELSE b - a

\* all orders in which a spatial query may return the members of S
Perms(S) ==
    {q \in [1..Cardinality(S) -> S] : \A i, j \in 1..Cardinality(S) : q[i] = q[j] => i = j}

\* sorted(keys) for a set of connection ids
RECURSIVE SortedSeq(_)
SortedSeq(S) ==
    IF S = {} THEN <<>>
    ELSE LET m == CHOOSE x \in S : \A y \in S : x <= y
         IN  <<m>> \o SortedSeq(S \ {m})

\* keys of an ordered dict held as a sequence of [c, e] items
Keys(d) == {d[i].c : i \in DOMAIN d}

\* dict |= other: a known key keeps its place and takes the new value,
\* a new key is appended
RECURSIVE DictUpdate(_, _)
DictUpdate(d, other) ==
    IF other = <<>> THEN d
    ELSE LET it == Head(other)
             d2 == IF it.c \in Keys(d)
                   THEN [i \in DOMAIN d |-> IF d[i].c = it.c THEN it ELSE d[i]]
                   ELSE Append(d, it)
         IN  DictUpdate(d2, Tail(other))

\* Connection.search(center, radius): the pool of the connections whose ends lie
\* at the points a ball query returns in the order `order`
RECURSIVE PoolOver(_, _, _)
PoolOver(pool, order, cmap) ==
    IF order = <<>> THEN pool
    ELSE PoolOver(DictUpdate(pool, cmap[Head(order)]), Tail(order), cmap)

SearchPool(center, order, cmap) == PoolOver(cmap[center], order, cmap)

\* query_ball_point: the indices of the points within the radius
NearIndices(center, plist) ==
    {i \in DOMAIN plist : Dist(plist[i], center) <= MAX_DISTANCE_BRANCH_M}

\* the pools Connection.search may return, one for each order in which the
\* tree may list the indices
SearchPools(center, plist, cmap) ==
    {SearchPool(center, [k \in DOMAIN o |-> plist[o[k]]], cmap) :
        o \in Perms(NearIndices(center, plist))}

\* Substation.search(center, 500 m)
NearSubs(center, nn) ==
    {n \in DOMAIN nn : nn[n].type = "SUBSTATION"
                       /\ Dist(nn[n].coords, center) <= MAX_DISTANCE_SUBSTATION_M}

\* subs.sort(key=distance): the candidates for subs[0]
Closest(center, subs, nn) ==
    {n \in subs : \A m \in subs : Dist(nn[n].coords, center) <= Dist(nn[m].coords, center)}

\* lines 345-360: what the searches at a point may give, the pool and the
\* closest substation (None when no substation lies within 500 m)
SearchAnswers(center, plist, cmap, nn) ==
    {[pool |-> pl, sub |-> sb] :
        pl \in SearchPools(center, plist, cmap),
        sb \in (IF NearSubs(center, nn) = {} THEN {None}
                ELSE Closest(center, NearSubs(center, nn), nn))}

\* f"br_{conn_list}" and f"br_{conn_list}_{nr}"
BranchId(key, nr) == <<"br">> \o key \o (IF nr > 1 THEN <<nr>> ELSE <<>>)

\* Branch.__init__ without the test for a branch at the same point
RECURSIVE BranchNrAlwaysNew(_, _, _, _)
BranchNrAlwaysNew(key, coords, nr, nn) ==
    IF BranchId(key, nr) \notin DOMAIN nn THEN nr
    ELSE BranchNrAlwaysNew(key, coords, nr + 1, nn)

\* Branch.__init__, lines 149-157: the counter of the new branch, 0 when a
\* branch with those conns at that point already exists
RECURSIVE BranchNr(_, _, _, _)
BranchNr(key, coords, nr, nn) ==
    IF BranchId(key, nr) \notin DOMAIN nn THEN nr
    ELSE IF nn[BranchId(key, nr)].coords = coords THEN 0
    ELSE BranchNr(key, coords, nr + 1, nn)

\* lines 381-389 without the tests that prevent self loops
AssignEndsUnguarded(cs, pool, nid) ==
    [c \in DOMAIN cs |->
        IF c \notin Keys(pool) THEN cs[c]
        ELSE LET e == (CHOOSE i \in DOMAIN pool : pool[i].c = c)
             IN  IF pool[e].e = "START" THEN [cs[c] EXCEPT !.startNode = nid]
                 ELSE [cs[c] EXCEPT !.endNode = nid]]

\* lines 381-389: the pool's connections take `nid` as start or end node
AssignEnds(cs, pool, nid) ==
    [c \in DOMAIN cs |->
        IF c \notin Keys(pool) THEN cs[c]
        ELSE LET e == (CHOOSE i \in DOMAIN pool : pool[i].c = c)
                 et == pool[e].e
             IN  IF et = "START" /\ cs[c].endNode # nid
                    THEN [cs[c] EXCEPT !.startNode = nid]
                 ELSE IF et = "END" /\ cs[c].startNode # nid
                    THEN [cs[c] EXCEPT !.endNode = nid]
                 ELSE cs[c]]

\* the way id of the k-th connection loaded
ConnId(k) == 100 + k

\* Connection.circuits of the k-th connection loaded, as far as the nodes read it:
\* the voltages of its circuits
CircuitVoltages(c) ==
    IF c = ConnId(1) THEN {380000} ELSE IF c = ConnId(2) THEN {220000} ELSE {110000}

\* node.py 105-110 and 161-164: the voltages of the circuits of the listed connections
VoltagesFromConns(connections) ==
    UNION {CircuitVoltages(connections[i]) : i \in DOMAIN connections}

\* node.add_conns(pool): the keys of node.connections after |=
AddConns(connections, pool) ==
    connections \o SelectSeq([i \in DOMAIN pool |-> pool[i].c],
                             LAMBDA c : c \notin Range(connections))

\* lines 340-389, one pass of the for loop, for the ci-th connection point
ResolvePoint ==
    /\ tpc = "resolve"
    /\ ci <= Len(connpoint_list)
    /\ LET p == connpoint_list[ci]
       IN  \E found \in (IF p \in DOMAIN search_result THEN {search_result[p]}
                          ELSE SearchAnswers(p, connpoint_list, connpoint_map, nodes)) :
             LET pool == found.pool
                 key  == SortedSeq(Keys(pool))
                 nr   == BranchNr(key, p, 1, nodes)
             IN  /\ search_result' = IF p \in DOMAIN search_result THEN search_result
                                     ELSE search_result @@ (p :> found)
                 /\ IF found.sub # None
                    THEN /\ nodes' = [nodes EXCEPT ![found.sub].connections = AddConns(@, pool)]
                         /\ UNCHANGED node_voltages
                         /\ conns' = AssignEnds(conns, pool, found.sub)
                    ELSE IF nr = 0
                    THEN UNCHANGED <<nodes, conns, node_voltages>>
                    ELSE /\ nodes' = [n \in DOMAIN nodes \cup {BranchId(key, nr)} |->
                                        IF n \in DOMAIN nodes THEN nodes[n]
                                        ELSE [type |-> "BRANCH", coords |-> p,
                                              connections |-> [i \in DOMAIN pool |-> pool[i].c]]]
                         /\ conns' = AssignEnds(conns, pool, BranchId(key, nr))
                         /\ node_voltages' = node_voltages @@
                                (BranchId(key, nr) :> VoltagesFromConns([i \in DOMAIN pool |-> pool[i].c]))
    /\ ci' = ci + 1
    /\ UNCHANGED <<tpc, connpoint_list, connpoint_map, pass, after_first,
                   unvisited_nodes, unvisited_conns, current_node_stack,
                   deleted_subs, deleted_conns, dvars, svars, ovars, xvars>>

\* start_node = "46615737": the substation the island filter starts from
start_node == <<"sub", 1>>

\* lines 397-419: the loop is over; the island filter is set up
StartIslandFilter ==
    /\ tpc = "resolve"
    /\ pass = 1
    /\ ci > Len(connpoint_list)
    /\ tpc' = "dfs"
    /\ unvisited_nodes' = DOMAIN nodes
    /\ unvisited_conns' = DOMAIN conns
    /\ current_node_stack' = <<start_node>>
    /\ node_voltages' = [n \in DOMAIN nodes |-> VoltagesFromConns(nodes[n].connections)]
    /\ UNCHANGED <<conns, connpoint_list, connpoint_map, search_result, nodes, ci, pass, after_first,
                   deleted_subs, deleted_conns, dvars, svars, ovars, xvars>>

\* lines 432-443: the for loop over the connections of current_node;
\* gives the conns left unvisited and the node found (None if none)
RECURSIVE ScanConns(_, _, _, _)
ScanConns(cids, current, uconns, unodes) ==
    IF cids = <<>> THEN [uconns |-> uconns, found |-> None]
    ELSE LET cid == Head(cids)
         IN  IF cid \notin uconns THEN ScanConns(Tail(cids), current, uconns, unodes)
             ELSE LET other == IF conns[cid].startNode = current
                               THEN conns[cid].endNode ELSE conns[cid].startNode
                  IN  IF other \in unodes
                      THEN [uconns |-> uconns \ {cid}, found |-> other]
                      ELSE ScanConns(Tail(cids), current, uconns \ {cid}, unodes)

\* lines 425-450: one pass of the while loop of the depth-first island filter
DfsStep ==
    /\ tpc = "dfs"
    /\ LET current == current_node_stack[Len(current_node_stack)]
           unodes  == unvisited_nodes \ {current}
           scan    == ScanConns(nodes[current].connections, current, unvisited_conns, unodes)
       IN  /\ unvisited_nodes' = unodes
           /\ unvisited_conns' = scan.uconns
           /\ IF scan.found # None
              THEN /\ current_node_stack' = Append(current_node_stack, scan.found)
                   /\ tpc' = tpc
              ELSE /\ current_node_stack' = SubSeq(current_node_stack, 1, Len(current_node_stack) - 1)
                   /\ tpc' = IF Len(current_node_stack) = 1 THEN "delete" ELSE tpc
    /\ UNCHANGED <<node_voltages, conns, connpoint_list, connpoint_map, search_result, nodes, ci, pass, after_first,
                   deleted_subs, deleted_conns, dvars, svars, ovars, xvars>>

\* list.remove(x) for each x of a sequence of points, in turn
RECURSIVE RemoveAll(_, _)
RemoveAll(plist, xs) ==
    IF xs = <<>> THEN plist
    ELSE RemoveAll(IF Head(xs) \in Range(plist) THEN RemoveFirst(plist, Head(xs)) ELSE plist,
                   Tail(xs))

\* the points that Connection.delete removes from connpoint_list, for a set of conns
RECURSIVE EndPointsOf(_)
EndPointsOf(cidSeq) ==
    IF cidSeq = <<>> THEN <<>>
    ELSE <<conns[Head(cidSeq)].startPoint, conns[Head(cidSeq)].endPoint>>
            \o EndPointsOf(Tail(cidSeq))

\* what Substation.delete appends to _deleted_subs for the deleted nodes
RecordedSubs(ids, nn) == {n \in ids : nn[n].type = "SUBSTATION"}

\* lines 457-465: Node.delete / Substation.delete for every unvisited node,
\* Connection.delete for every unvisited connection
DeleteIslands ==
    /\ tpc = "delete"
    /\ nodes' = [n \in DOMAIN nodes \ unvisited_nodes |-> nodes[n]]
    /\ node_voltages' = [n \in DOMAIN nodes \ unvisited_nodes |-> node_voltages[n]]
    /\ deleted_subs' = deleted_subs \cup RecordedSubs(unvisited_nodes, nodes)
    /\ conns' = [c \in DOMAIN conns \ unvisited_conns |-> conns[c]]
    /\ deleted_conns' = deleted_conns \cup unvisited_conns
    /\ connpoint_map' = [q \in DOMAIN connpoint_map |->
                            SelectSeq(connpoint_map[q], LAMBDA it : it.c \notin unvisited_conns)]
    /\ connpoint_list' = RemoveAll(connpoint_list, EndPointsOf(SortedSeq(unvisited_conns)))
    /\ tpc' = "test"
    /\ UNCHANGED <<ci, pass, after_first, unvisited_nodes, unvisited_conns,
                   current_node_stack, search_result, dvars, svars, ovars, xvars>>

\* Connection.test_refs(Node._all.keys())
TestRefs(cs, node_ids) ==
    {cs[c].startNode : c \in {x \in DOMAIN cs : cs[x].startNode \notin node_ids}}
        \cup {cs[c].endNode : c \in {x \in DOMAIN cs : cs[x].endNode \notin node_ids}}

\* Connection.to_csv_lines over Connection._all: the from_bus_id and to_bus_id
\* of the rows of connections.csv, less their voltage suffix
WrittenBusRefs(cs) ==
    UNION {{cs[c].startNode, cs[c].endNode} :
              c \in {x \in DOMAIN cs : cs[x].startNode # None /\ cs[x].endNode # None}}

\* Connection.write_csv, lines 621-624: node_getter(el.startNode), node_getter(el.endNode)
WriteCsvRaises(cs, node_ids) == ~(WrittenBusRefs(cs) \subseteq node_ids)

\* lines 481-493: the tables are written and the references are tested
WriteAndTest ==
    /\ tpc = "test"
    /\ tpc' = IF WriteCsvRaises(conns, DOMAIN nodes) THEN "KeyError"
              ELSE IF TestRefs(conns, DOMAIN nodes) \in {{}, {None}} THEN "done"
              ELSE "NullReferences"
    /\ UNCHANGED <<node_voltages, conns, connpoint_list, connpoint_map, search_result, nodes, ci, pass, after_first,
                   unvisited_nodes, unvisited_conns, current_node_stack,
                   deleted_subs, deleted_conns, dvars, svars, ovars, xvars>>

(***************************************************************************)
(* The grids the topology machine is run on                                *)
(***************************************************************************)
NumConns == 2         \* connections loaded
LinePoints == {0, 8, 1000}
SubPoints  == {-495, -300, 310}

ConnIds == {ConnId(k) : k \in 1..NumConns}

\* Connection.__init__, lines 460-474, for the loaded connections in load order
RECURSIVE PointListOf(_, _)
PointListOf(ends, k) ==
    IF k > NumConns THEN <<>>
    ELSE <<ends[ConnId(k)].startPoint, ends[ConnId(k)].endPoint>> \o PointListOf(ends, k + 1)

RECURSIVE PointMapAt(_, _, _)
PointMapAt(ends, q, k) ==
    IF k > NumConns THEN <<>>
    ELSE (IF ends[ConnId(k)].startPoint = q THEN <<[c |-> ConnId(k), e |-> "START"]>> ELSE <<>>)
         \o (IF ends[ConnId(k)].endPoint = q THEN <<[c |-> ConnId(k), e |-> "END"]>> ELSE <<>>)
         \o PointMapAt(ends, q, k + 1)

\* Substation.__init__ for record k at point q
\* Substation.db_voltages of the substation records (KV110 and KV380 set)
DbVoltages == {110000, 380000}

NewSubstation(q) == [type |-> "SUBSTATION", coords |-> q, connections |-> <<>>]

InitTopo ==
    /\ DecompIdle /\ SubIdle /\ OpfIdle /\ XIdle
    /\ tpc = "resolve"
    /\ search_result = <<>>
    /\ \E ends \in [ConnIds -> {e \in [startPoint : LinePoints, endPoint : LinePoints] :
                                    e.startPoint # e.endPoint}] :
         /\ conns = [c \in ConnIds |->
                        [startPoint |-> ends[c].startPoint, endPoint |-> ends[c].endPoint,
                         startNode |-> None, endNode |-> None]]
         /\ connpoint_list = PointListOf(ends, 1)
         /\ connpoint_map = [q \in LinePoints |-> PointMapAt(ends, q, 1)]
    /\ \E q1 \in SubPoints :
         \/ nodes = (<<"sub", 1>> :> NewSubstation(q1))
         \/ \E q2 \in SubPoints :
              nodes = (<<"sub", 1>> :> NewSubstation(q1)) @@ (<<"sub", 2>> :> NewSubstation(q2))
    /\ node_voltages = [n \in DOMAIN nodes |-> DbVoltages]
    /\ ci = 1 /\ pass = 1 /\ after_first = <<>>
    /\ unvisited_nodes = {} /\ unvisited_conns = {} /\ current_node_stack = <<>>
    /\ deleted_subs = {} /\ deleted_conns = {}

NextTopo == ResolvePoint \/ StartIslandFilter \/ DfsStep \/ DeleteIslands \/ WriteAndTest

SpecTopo == InitTopo /\ [][NextTopo]_vars

\* three connections that each have one end on a chain of points 8 m apart and the
\* other end far away, loaded in any order and either way round
ChainPoints == <<0, 8, 16>>
FarPoint    == 2 * MAX_DISTANCE_SUBSTATION_M   \* beyond every search radius

ChainEnds ==
    {ends \in [{ConnId(k) : k \in 1..3} -> [startPoint : {0, 8, 16, FarPoint},
                                            endPoint : {0, 8, 16, FarPoint}]] :
        /\ \A c \in DOMAIN ends : (ends[c].startPoint = FarPoint) # (ends[c].endPoint = FarPoint)
        /\ \A i \in 1..3 : \E c \in DOMAIN ends :
               ChainPoints[i] \in {ends[c].startPoint, ends[c].endPoint}}

\* the items of connpoint_map[q], in load order
ChainMapAt(ends, q) ==
    LET item(k) == (IF ends[ConnId(k)].startPoint = q
                       THEN <<[c |-> ConnId(k), e |-> "START"]>> ELSE <<>>)
                   \o (IF ends[ConnId(k)].endPoint = q
                          THEN <<[c |-> ConnId(k), e |-> "END"]>> ELSE <<>>)
    IN  item(1) \o item(2) \o item(3)

InitChain ==
    /\ DecompIdle /\ SubIdle /\ OpfIdle /\ XIdle
    /\ tpc = "resolve"
    /\ search_result = <<>>
    /\ \E ends \in ChainEnds :
         /\ conns = [c \in DOMAIN ends |->
                        [startPoint |-> ends[c].startPoint, endPoint |-> ends[c].endPoint,
                         startNode |-> None, endNode |-> None]]
         /\ connpoint_list = <<ends[ConnId(1)].startPoint, ends[ConnId(1)].endPoint,
                               ends[ConnId(2)].startPoint, ends[ConnId(2)].endPoint,
                               ends[ConnId(3)].startPoint, ends[ConnId(3)].endPoint>>
         /\ connpoint_map = [q \in {0, 8, 16, FarPoint} |-> ChainMapAt(ends, q)]
    /\ \E q1 \in SubPoints :
         \/ nodes = (<<"sub", 1>> :> NewSubstation(q1))
         \/ \E q2 \in SubPoints :
              nodes = (<<"sub", 1>> :> NewSubstation(q1)) @@ (<<"sub", 2>> :> NewSubstation(q2))
    /\ node_voltages = [n \in DOMAIN nodes |-> DbVoltages]
    /\ ci = 1 /\ pass = 1 /\ after_first = <<>>
    /\ unvisited_nodes = {} /\ unvisited_conns = {} /\ current_node_stack = <<>>
    /\ deleted_subs = {} /\ deleted_conns = {}

SpecChain == InitChain /\ [][NextTopo]_vars

\* the for loop of lines 340-389 is entered again over the same connpoint_list
StartSecondPass ==
    /\ tpc = "resolve"
    /\ pass = 1
    /\ ci > Len(connpoint_list)
    /\ pass' = 2
    /\ ci' = 1
    /\ after_first' = [nodes |-> nodes, conns |-> conns]
    /\ UNCHANGED <<node_voltages, tpc, conns, connpoint_list, connpoint_map, search_result, nodes,
                   unvisited_nodes, unvisited_conns, current_node_stack,
                   deleted_subs, deleted_conns, dvars, svars, ovars, xvars>>

NextRerun == ResolvePoint \/ StartSecondPass

SpecRerun == InitTopo /\ [][NextRerun]_vars

(***************************************************************************)
(* Substation / Transformer registry: Substation.__init__,                 *)
(* Node.update_voltages_from_conns, Substation.update_transformers,        *)
(* Substation.delete and Transformer.__init__.                             *)
(* A transformer id f"tr_{sub}_{hv//1000}_{lv//1000}_{nr}" is the tuple    *)
(* <<"tr", sub, hv \div 1000, lv \div 1000, nr>>.                          *)
(***************************************************************************)
\* f"tr_{sub_id}_{hv_v//1000}_{lv_v//1000}_{nr}" with the first nr that is free
RECURSIVE TransformerId(_, _, _, _, _)
TransformerId(sub_id, hv_v, lv_v, nr, all) ==
    LET id == <<"tr", sub_id, hv_v \div 1000, lv_v \div 1000, nr>>
    IN  IF id \in DOMAIN all THEN TransformerId(sub_id, hv_v, lv_v, nr + 1, all) ELSE id

\* every voltage paired with the lowest one
PairsWithLowest(voltages) ==
    [i \in 1..(Len(voltages) - 1) |-> <<voltages[1], voltages[i + 1]>>]

\* zip(self.voltages[0:], self.voltages[1:]): the pairs (v_lv, v_hv)
ConsecutivePairs(voltages) ==
    [i \in 1..(Len(voltages) - 1) |-> <<voltages[i], voltages[i + 1]>>]

\* the for loop of update_transformers: Transformer(self.id, v_hv, v_lv) for
\* each pair, each registered in Transformer._all before the next is built
RECURSIVE MakeTransformers(_, _, _)
MakeTransformers(sub_id, pairs, acc) ==
    IF pairs = <<>> THEN acc
    ELSE LET v_lv == Head(pairs)[1]
             v_hv == Head(pairs)[2]
             id   == TransformerId(sub_id, v_hv, v_lv, 1, acc.all)
         IN  MakeTransformers(sub_id, Tail(pairs),
                 [all |-> acc.all @@ (id :> [sub |-> sub_id, hv_v |-> v_hv, lv_v |-> v_lv]),
                  ids |-> Append(acc.ids, id)])

\* Substation.update_transformers: the old transformers are deleted, the
\* voltages are sorted, the new transformers are made
UpdateTransformers(sub_id, old, voltage_set, all) ==
    LET voltages == SortedSeq(voltage_set)
        made == MakeTransformers(sub_id, ConsecutivePairs(voltages),
                    [all |-> [t \in DOMAIN all \ Range(old) |-> all[t]], ids |-> <<>>])
    IN  [voltages |-> voltages, transformers |-> made.ids, all |-> made.all]

NumSubs == 2                \* substation records
KVKeys == {110, 220, 380}   \* the KV<n> flags of a substation record
GridVoltages == {110000, 110400, 110800, 220000, 380000}   \* voltages of circuits

InitSub ==
    /\ DecompIdle /\ TopoIdle /\ OpfIdle /\ XIdle
    /\ substations = <<>>
    /\ Transformer_all = <<>>

\* Substation(properties) for a record whose KV flags are kv; a record without
\* a flag raises NoVoltageError before anything is registered
ConstructSubstation ==
    \E id \in (1..NumSubs) \ DOMAIN substations, kv \in SUBSET KVKeys :
        /\ IF kv = {}
           THEN UNCHANGED svars
           ELSE LET upd == UpdateTransformers(id, <<>>, {1000 * k : k \in kv}, Transformer_all)
                IN  /\ substations' = substations @@
                          (id :> [voltages |-> upd.voltages, transformers |-> upd.transformers])
                    /\ Transformer_all' = upd.all
        /\ UNCHANGED <<dvars, tvars, ovars, xvars>>

\* Node.update_voltages_from_conns for a substation whose connections hold
\* circuits of the voltages vs
UpdateVoltagesFromConns ==
    \E id \in DOMAIN substations, vs \in SUBSET GridVoltages :
        LET upd == UpdateTransformers(id, substations[id].transformers, vs, Transformer_all)
        IN  /\ substations' = [substations EXCEPT
                                  ![id] = [voltages |-> upd.voltages,
                                           transformers |-> upd.transformers]]
            /\ Transformer_all' = upd.all
            /\ UNCHANGED <<dvars, tvars, ovars, xvars>>

\* Substation.delete
DeleteSubstation ==
    \E id \in DOMAIN substations :
        /\ substations' = [k \in DOMAIN substations \ {id} |-> substations[k]]
        /\ Transformer_all' = [t \in DOMAIN Transformer_all \ Range(substations[id].transformers)
                                  |-> Transformer_all[t]]
        /\ UNCHANGED <<dvars, tvars, ovars, xvars>>

NextSub == ConstructSubstation \/ UpdateVoltagesFromConns \/ DeleteSubstation

SpecSub == InitSub /\ [][NextSub]_vars

\* the transformers of the registry that no registered substation lists
Unlisted ==
    DOMAIN Transformer_all \
        UNION {Range(substations[id].transformers) : id \in DOMAIN substations}

MaxUnlisted == 1            \* unlisted transformers before a further replacing record

\* Substation(properties) for a record whose id is registered already: the
\* entry of Node._all is replaced (line 76) and the new object starts from an
\* empty transformer list (line 201), so update_transformers deletes nothing,
\* the transformers of the replaced object stay in Transformer._all and the
\* new ones take the next free counters
ConstructSubstationAgain ==
    \E id \in DOMAIN substations, kv \in SUBSET KVKeys :
        /\ Cardinality(Unlisted) < MaxUnlisted
        /\ IF kv = {}
           THEN UNCHANGED svars
           ELSE LET upd == UpdateTransformers(id, <<>>, {1000 * k : k \in kv}, Transformer_all)
                IN  /\ substations' = [substations EXCEPT
                                          ![id] = [voltages |-> upd.voltages,
                                                   transformers |-> upd.transformers]]
                    /\ Transformer_all' = upd.all
        /\ UNCHANGED <<dvars, tvars, ovars, xvars>>

\* the registry under the records of a file alone, ids repeating
NextReplace == ConstructSubstation \/ ConstructSubstationAgain \/ DeleteSubstation

SpecReplace == InitSub /\ [][NextReplace]_vars

(***************************************************************************)
(* The registries under the constructors: Connection.__init__ and          *)
(* Connection.delete, Substation.__init__ and Branch.__init__, each call   *)
(* one step.  The registries are Connection._all, connpoint_list and       *)
(* connpoint_map, Node._all, Substation._point_list and _point_map and     *)
(* Transformer._all.                                                       *)
(***************************************************************************)
MaxPointEntries == 2        \* entries of a point list before a further replacing record

RegPoints == {0, 1000}      \* where connections end and substations stand
RegSub    == <<"sub", 1>>   \* the id of the substation records
RegConn   == ConnId(1)      \* the id of the connection records

\* connection.py 317-474 from the loop head on: the consumption loop and what
\* follows it, run to the end of the constructor
RECURSIVE RunLoop(_, _)
RunLoop(c, r) ==
    IF c.pc # "loop" THEN c
    ELSE IF c.remaining_circuits <= 0
    THEN IF Len(c.circuits) < 1 THEN [pc |-> "NoValidCircuitError"]
         ELSE IF r.filter.given
                 /\ ~(\E i \in DOMAIN c.circuits : FilterPasses(r.filter, c.circuits[i].voltage))
         THEN [pc |-> "FilteredItem"]
         ELSE [c EXCEPT !.pc = "registered"]
    ELSE LET ch == ChooseF(c, r)
         IN  IF ch.kind = "f" THEN RunLoop(EmitCircuit(c, r, ch), r)
             ELSE IF ch.kind = "drop"
             THEN RunLoop([c EXCEPT !.remaining_cables = @ - 1], r)
             ELSE [pc |-> "PowerFrequencyError"]

InitRegistry ==
    /\ DecompIdle /\ OpfIdle
    /\ LoadIdle /\ CheckerIdle /\ CacheIdle /\ CliIdle /\ SolverIdle /\ SolveOpfIdle
    /\ tpc = "load"
    /\ conns = <<>> /\ connpoint_list = <<>>
    /\ connpoint_map = [q \in RegPoints |-> <<>>]
    /\ nodes = <<>> /\ node_voltages = <<>>
    /\ search_result = <<>>
    /\ ci = 0 /\ pass = 0 /\ after_first = <<>>
    /\ unvisited_nodes = {} /\ unvisited_conns = {} /\ current_node_stack = <<>>
    /\ deleted_subs = {} /\ deleted_conns = {}
    /\ substations = <<>> /\ Transformer_all = <<>>
    /\ sub_point_list = <<>>
    /\ sub_point_map = [q \in RegPoints |-> <<>>]
    /\ construction = [class |-> "none", raised |-> "none"]

\* Connection(way_id, ...), connection.py 191-474: the record is decomposed,
\* and a connection that got through is registered under its id, its two end
\* points appended to connpoint_list and entered in connpoint_map
ConstructConnection ==
    \E id \in {RegConn}, properties \in RawProps, filter \in Filters,
       startPoint \in RegPoints, endPoint \in RegPoints :
        LET r == [voltages |-> properties.voltages, frequency |-> properties.frequency,
                  circuits |-> properties.circuits, cables |-> properties.cables,
                  filter |-> filter, type |-> "LINE"]
            ended == RunLoop(Preamble(r), r).pc
        IN  /\ startPoint # endPoint
            /\ id \in DOMAIN conns => Len(connpoint_list) <= MaxPointEntries
            /\ construction' = [class |-> "Connection",
                                raised |-> IF ended = "registered" THEN "none" ELSE ended]
            /\ IF ended = "registered"
               THEN /\ conns' = (id :> [startPoint |-> startPoint, endPoint |-> endPoint,
                                        startNode |-> None, endNode |-> None]) @@ conns
                    /\ connpoint_list' = connpoint_list \o <<startPoint, endPoint>>
                    /\ connpoint_map' =
                          [q \in RegPoints |->
                              IF q = startPoint
                              THEN DictUpdate(connpoint_map[q], <<[c |-> id, e |-> "START"]>>)
                              ELSE IF q = endPoint
                              THEN DictUpdate(connpoint_map[q], <<[c |-> id, e |-> "END"]>>)
                              ELSE connpoint_map[q]]
               ELSE UNCHANGED <<conns, connpoint_list, connpoint_map>>
            /\ UNCHANGED <<tpc, search_result, nodes, ci, pass, after_first, unvisited_nodes,
                           unvisited_conns, current_node_stack, deleted_subs, deleted_conns,
                           node_voltages, svars, sub_point_list, sub_point_map>>
            /\ UNCHANGED outsideRegistry

\* Connection.delete, connection.py 476-486
DeleteConnection ==
    \E id \in DOMAIN conns :
        /\ deleted_conns' = deleted_conns \cup {id}
        /\ conns' = [c \in DOMAIN conns \ {id} |-> conns[c]]
        /\ connpoint_map' = [q \in RegPoints |->
                                IF q \in {conns[id].startPoint, conns[id].endPoint}
                                THEN SelectSeq(connpoint_map[q], LAMBDA it : it.c # id)
                                ELSE connpoint_map[q]]
        /\ connpoint_list' = RemoveAll(connpoint_list,
                                       <<conns[id].startPoint, conns[id].endPoint>>)
        /\ construction' = [class |-> "none", raised |-> "none"]
        /\ UNCHANGED <<tpc, search_result, nodes, ci, pass, after_first, unvisited_nodes,
                       unvisited_conns, current_node_stack, deleted_subs,
                       node_voltages, svars, sub_point_list, sub_point_map>>
        /\ UNCHANGED outsideRegistry

\* Substation(properties, filter_f), node.py 176-207 with Node.__init__ 44-76:
\* NoVoltageError and FilteredItem come before line 76 registers the node;
\* then the transformers are made and the point is appended
ConstructSubstationRecord ==
    \E KV \in {{}, {110}, {110, 380}}, filter \in Filters, coords \in {0} :
        LET ended == SubstationRaises([KV |-> KV], filter)
            upd   == UpdateTransformers(RegSub, <<>>, {1000 * k : k \in KV}, Transformer_all)
        IN  /\ RegSub \in DOMAIN nodes => Len(sub_point_list) < MaxPointEntries
            /\ construction' = [class |-> "Substation",
                                raised |-> IF ended = "registered" THEN "none" ELSE ended]
            /\ IF ended = "registered"
               THEN /\ nodes' = (RegSub :> NewSubstation(coords)) @@ nodes
                    /\ node_voltages' = (RegSub :> {1000 * k : k \in KV}) @@ node_voltages
                    /\ substations' = (RegSub :> [voltages |-> upd.voltages,
                                                  transformers |-> upd.transformers])
                                         @@ substations
                    /\ Transformer_all' = upd.all
                    /\ sub_point_list' = Append(sub_point_list, coords)
                    /\ sub_point_map' = [sub_point_map EXCEPT ![coords] = Append(@, RegSub)]
               ELSE UNCHANGED <<nodes, node_voltages, svars, sub_point_list, sub_point_map>>
            /\ UNCHANGED <<tpc, conns, connpoint_list, connpoint_map, search_result, ci, pass,
                           after_first, unvisited_nodes, unvisited_conns, current_node_stack,
                           deleted_subs, deleted_conns>>
            /\ UNCHANGED outsideRegistry

\* Branch(coords, conn_dict), node.py 147-166, for the pool of all registered
\* connections: AlreadyExistsException comes before Node.__init__ registers
\* the node
ConstructBranch ==
    \E coords \in RegPoints, conn_dict \in {DOMAIN conns} \ {{}} :
        LET key == SortedSeq(conn_dict)
            nr  == BranchNr(key, coords, 1, nodes)
        IN  /\ construction' = [class |-> "Branch",
                                raised |-> IF nr = 0 THEN "AlreadyExistsException"
                                           ELSE "none"]
            /\ IF nr = 0
               THEN UNCHANGED <<nodes, node_voltages>>
               ELSE /\ nodes' = (BranchId(key, nr) :>
                                    [type |-> "BRANCH", coords |-> coords, connections |-> key])
                                   @@ nodes
                    /\ node_voltages' = (BranchId(key, nr) :> VoltagesFromConns(key))
                                           @@ node_voltages
            /\ UNCHANGED <<tpc, conns, connpoint_list, connpoint_map, search_result, ci, pass,
                           after_first, unvisited_nodes, unvisited_conns, current_node_stack,
                           deleted_subs, deleted_conns, svars, sub_point_list, sub_point_map>>
            /\ UNCHANGED outsideRegistry

NextRegistry ==
    ConstructConnection \/ DeleteConnection \/ ConstructSubstationRecord \/ ConstructBranch

SpecRegistry == InitRegistry /\ [][NextRegistry]_vars

(***************************************************************************)
(* OPF engine: OPFEngine.run_scenario and OPFEngine._apply_scenario.       *)
(* A network is a record of tables held in the heap under a reference;     *)
(* reference 0 is None.  Powers are whole MW and Mvar, capacity factors    *)
(* and the load scale are whole per cent; the values drawn make every      *)
(* product and every half exact.                                           *)
(***************************************************************************)
\* scenario_data.get(key, default)
Get(scenario_data, key, default) ==
    IF key \in DOMAIN scenario_data THEN scenario_data[key] ELSE default

\* the body of the for loop with the storage branch of lines 124-138 left out
ApplyCfToRowNoStorageMode(row, et_type, cfs, storage_mode) ==
    IF row.type = "border" THEN row
    ELSE LET install_cap == IF row.max_p_mw <= 0 THEN row.p_mw ELSE row.max_p_mw
             actual_p    == (install_cap * Get(cfs, row.type, 100)) \div 100
         IN  [row EXCEPT !.p_mw = actual_p, !.max_p_mw = actual_p,
                         !.min_p_mw = actual_p \div 2]

\* the body of the for loop of apply_cf_to_table for one row
ApplyCfToRow(row, et_type, cfs, storage_mode) ==
    IF row.type = "border" THEN row
    ELSE LET install_cap == IF row.max_p_mw <= 0 THEN row.p_mw ELSE row.max_p_mw
             cf          == Get(cfs, row.type, 100)
             actual_p    == (install_cap * cf) \div 100
         IN  IF et_type = "storage"
             THEN IF storage_mode = "charge_only"
                  THEN [row EXCEPT !.p_mw = actual_p, !.max_p_mw = 0, !.min_p_mw = 0 - actual_p]
                  ELSE IF storage_mode = "discharge_only"
                  THEN [row EXCEPT !.p_mw = actual_p, !.max_p_mw = actual_p, !.min_p_mw = 0]
                  ELSE [row EXCEPT !.p_mw = actual_p, !.max_p_mw = actual_p,
                                   !.min_p_mw = 0 - actual_p]
             ELSE [row EXCEPT !.p_mw = actual_p, !.max_p_mw = actual_p,
                              !.min_p_mw = actual_p \div 2]

\* apply_cf_to_table(df, et_type)
ApplyCfToTable(df, et_type, cfs, storage_mode) ==
    IF Len(df.rows) = 0 THEN df
    ELSE LET with_columns ==
                 [i \in DOMAIN df.rows |->
                     [df.rows[i] EXCEPT
                         !.max_p_mw = IF df.has_max_p_mw THEN @ ELSE df.rows[i].p_mw,
                         !.min_p_mw = IF df.has_min_p_mw THEN @ ELSE 0]]
         IN  [has_max_p_mw |-> TRUE, has_min_p_mw |-> TRUE,
              rows |-> [i \in DOMAIN with_columns |->
                           ApplyCfToRow(with_columns[i], et_type, cfs, storage_mode)]]

\* the load scaling of _apply_scenario
ScaleLoad(load, load_scale) ==
    [i \in DOMAIN load |->
        [scaling |-> load_scale,
         p_mw    |-> (load[i].p_mw * load_scale) \div 100,
         q_mvar  |-> (load[i].q_mvar * load_scale) \div 100]]

\* what _apply_scenario writes into the network `net`
ApplyScenarioTo(net, scenario_data) ==
    LET cfs          == Get(scenario_data, "capacity_factors", <<>>)
        load_scale   == Get(scenario_data, "load_scale", 100)
        storage_mode == Get(scenario_data, "storage_mode", "bidirectional")
    IN  [net EXCEPT
            !.gen     = ApplyCfToTable(@, "gen", cfs, storage_mode),
            !.sgen    = ApplyCfToTable(@, "sgen", cfs, storage_mode),
            !.storage = ApplyCfToTable(@, "storage", cfs, storage_mode),
            !.load    = ScaleLoad(@, load_scale)]

\* total_gen_breakdown summed: actual_p of every row that is no border generator
RECURSIVE SumActualP(_)
SumActualP(rows) ==
    IF rows = <<>> THEN 0
    ELSE (IF Head(rows).type = "border" THEN 0 ELSE Head(rows).p_mw) + SumActualP(Tail(rows))

RECURSIVE SumLoadP(_)
SumLoadP(load) == IF load = <<>> THEN 0 ELSE Head(load).p_mw + SumLoadP(Tail(load))

\* the info dict of _apply_scenario for the parameterised network `net`
ScenarioInfo(name, net, scenario_data) ==
    [name          |-> name,
     total_load_mw |-> SumLoadP(net.load),
     total_gen_mw  |-> SumActualP(net.gen.rows) + SumActualP(net.sgen.rows)
                          + SumActualP(net.storage.rows),
     load_scale    |-> Get(scenario_data, "load_scale", 100)]

\* _setup_opf_costs: the poly_cost table is cleared and gets one row per
\* generator, static generator and storage unit
SetupOpfCosts(net) ==
    [net EXCEPT !.poly_cost =
        [i \in DOMAIN net.gen.rows |-> <<"gen", i>>]
            \o [i \in DOMAIN net.sgen.rows |-> <<"sgen", i>>]
            \o [i \in DOMAIN net.storage.rows |-> <<"storage", i>>]]

\* the references held by the engine and by its caller
LiveRefs == ({base_net, scenario_net} \cup (IF returned = <<>> THEN {} ELSE {returned.net})) \ {0}

\* the network is not copied: the scenario is written into the source object
SameObject(src, live) == src

\* copy.deepcopy(self.base_net): the reference of a new object
DeepCopy(src, live) == CHOOSE r \in 1..(Cardinality(live) + 2) : r \notin (live \cup {src})

\* the heap after net = copy.deepcopy(base_net) and the writes `f` into net;
\* objects that nothing refers to any more are dropped
HeapAfter(net, written, keep) ==
    [r \in keep \cup {net} |-> IF r = net THEN written ELSE heap[r]]

\* the scenarios registered in SCENARIOS and the dict a caller passes
Scenarios ==
    { [name |-> "pv_low_wind_low", capacity_factors |-> ("wind_onshore" :> 50),
       load_scale |-> 100, storage_mode |-> "charge_only"],
      [name |-> "load_high", capacity_factors |-> ("coal" :> 50 @@ "storage" :> 50),
       load_scale |-> 150, storage_mode |-> "discharge_only"],
      [load_scale |-> 50] }

GenTables ==
    { <<>>,
      <<[type |-> "border", p_mw |-> 400, max_p_mw |-> 400, min_p_mw |-> 0]>>,
      <<[type |-> "coal", p_mw |-> 400, max_p_mw |-> 0, min_p_mw |-> 0]>>,
      <<[type |-> "hard_coal", p_mw |-> 400, max_p_mw |-> 400, min_p_mw |-> 0]>>,
      <<[type |-> "coal", p_mw |-> 200, max_p_mw |-> 400, min_p_mw |-> 0],
        [type |-> "border", p_mw |-> 400, max_p_mw |-> 400, min_p_mw |-> 0]>> }

SgenTables ==
    { [has_max_p_mw |-> FALSE, has_min_p_mw |-> FALSE,
       rows |-> <<[type |-> "wind_onshore", p_mw |-> 200, max_p_mw |-> 0, min_p_mw |-> 0]>>],
      [has_max_p_mw |-> TRUE, has_min_p_mw |-> FALSE,
       rows |-> <<[type |-> "wind_onshore", p_mw |-> 200, max_p_mw |-> 400, min_p_mw |-> 0]>>],
      [has_max_p_mw |-> TRUE, has_min_p_mw |-> TRUE,
       rows |-> <<[type |-> "wind_onshore", p_mw |-> 400, max_p_mw |-> 400, min_p_mw |-> 0],
                  [type |-> "solar radiant energy", p_mw |-> 200, max_p_mw |-> 200,
                   min_p_mw |-> 0]>>] }

StorageTables ==
    { <<>>, <<[type |-> "storage", p_mw |-> 200, max_p_mw |-> 200, min_p_mw |-> 0]>>,
      <<[type |-> "storage", p_mw |-> 200, max_p_mw |-> 200, min_p_mw |-> 0],
        [type |-> "storage", p_mw |-> -100, max_p_mw |-> 0, min_p_mw |-> -100]>> }

LoadTables ==
    { <<[scaling |-> 100, p_mw |-> 100, q_mvar |-> 40]>>,
      <<[scaling |-> 100, p_mw |-> 200, q_mvar |-> 40],
        [scaling |-> 100, p_mw |-> 100, q_mvar |-> 20]>> }

\* OPFEngine(base_net, external_grids)
InitOPF ==
    /\ DecompIdle /\ TopoIdle /\ SubIdle /\ XIdle
    /\ \E g \in GenTables, sg \in SgenTables, st \in StorageTables, ld \in LoadTables :
          initial_net = [gen     |-> [has_max_p_mw |-> TRUE, has_min_p_mw |-> TRUE, rows |-> g],
                         sgen    |-> sg,
                         storage |-> [has_max_p_mw |-> TRUE, has_min_p_mw |-> TRUE, rows |-> st],
                         load    |-> ld,
                         poly_cost |-> <<>>,
                         OPF_converged |-> FALSE]
    /\ base_net = 1
    /\ heap = (1 :> initial_net)
    /\ scenario_net = 0
    /\ scenario_info = <<>>
    /\ current_scenario_name = "None"
    /\ current_scenario_config = <<>>
    /\ returned = <<>>
    /\ opf_logs = {}

\* OPFEngine._apply_scenario(scenario_data), called by itself
ApplyScenario ==
    \E scenario_data \in Scenarios :
        LET net  == DeepCopy(base_net, LiveRefs)
            made == ApplyScenarioTo(heap[base_net], scenario_data)
        IN  /\ heap' = HeapAfter(net, made, {base_net, scenario_net} \ {0})
            /\ returned' = [net |-> net,
                            info |-> ScenarioInfo(current_scenario_name, made, scenario_data)]
            /\ UNCHANGED <<base_net, scenario_net, scenario_info, current_scenario_name,
                           current_scenario_config, initial_net, opf_logs>>
            /\ UNCHANGED <<dvars, tvars, svars, xvars>>

\* OPFEngine.run_scenario(scenario_input): the scenario is applied, the costs
\* are set up, the solver runs and leaves its verdict in the scenario network;
\* _solve_opf (below) returns True when the network holds that verdict, and
\* may return True without it
RunScenario ==
    \E scenario_input \in Scenarios, converged \in BOOLEAN, OPF_converged \in BOOLEAN :
        LET name == Get(scenario_input, "name", "custom_run")
            net  == DeepCopy(base_net, LiveRefs)
            made == ApplyScenarioTo(heap[base_net], scenario_input)
            done == [SetupOpfCosts(made) EXCEPT !.OPF_converged = OPF_converged]
            info == ScenarioInfo(name, made, scenario_input)
        IN  /\ OPF_converged => converged
            /\ current_scenario_name' = name
            /\ current_scenario_config' = scenario_input
            /\ heap' = HeapAfter(net, done, {base_net})
            /\ scenario_net' = net
            /\ scenario_info' = info
            /\ opf_logs' = opf_logs \cup {name}
            /\ returned' = [net |-> net, info |-> info, converged |-> converged]
            /\ UNCHANGED <<base_net, initial_net>>
            /\ UNCHANGED <<dvars, tvars, svars, xvars>>

NextOPF == ApplyScenario \/ RunScenario

SpecOPF == InitOPF /\ [][NextOPF]_vars

(***************************************************************************)
(* OPFEngine._solve_opf, as run_scenario calls it on self.scenario_net.    *)
(* pp.runpp and pp.runopp are calls into the solver library: a call ends   *)
(* by returning converged, by returning without convergence or by raising, *)
(* and it writes the flags of the network.  What a call that did not       *)
(* converge does to the flag net.converged is the library's matter: it is  *)
(* cleared or left as it was.                                              *)
(***************************************************************************)
MaxSolves == 1 + 1    \* run_scenario calls _solve_opf in its try and in its except clause

SolverOutcomes == {"converged", "not_converged", "raised"}
Flags == {"True", "False"}

\* lines 322-325: the test after pp.runopp has returned; hasattr fails on "absent"
IsSuccess(n) ==
    IF n.OPF_converged = "True" THEN TRUE
    ELSE IF n.converged = "True" THEN TRUE
    ELSE n.res_cost = "number"

\* run_scenario has applied the scenario and set up the costs; the scenario
\* network is a copy of the base network, on which a power flow may have run
InitSolveOpf ==
    /\ opf_net \in [converged     : Flags \cup {"absent"},
                    OPF_converged : {"False", "absent"},
                    res_cost      : {"absent", "nan"}]
    /\ init_mode = "none"
    /\ solver_report = "none"
    /\ opf_result = "none"
    /\ solves = 1
    /\ qpc = "warm_start"
    /\ DecompIdle /\ TopoIdle /\ SubIdle /\ OpfIdle
    /\ LoadIdle /\ CheckerIdle /\ CacheIdle /\ CliIdle /\ SolverIdle /\ RegistryIdle

\* lines 287-294: the warm start, pp.runpp in a try statement
WarmStart ==
    /\ qpc = "warm_start"
    /\ \E outcome \in SolverOutcomes, flag \in {opf_net.converged} \cup Flags :
          /\ outcome = "converged" => flag = "True"
          /\ outcome = "not_converged" => flag = "False"
          /\ outcome = "raised" => flag \in {opf_net.converged, "False"}
          /\ opf_net' = [opf_net EXCEPT !.converged = flag]
          /\ init_mode' = IF outcome = "raised" THEN "flat" ELSE "results"
    /\ qpc' = "runopp"
    /\ UNCHANGED <<solver_report, opf_result, solves>>
    /\ UNCHANGED outsideSolveOpf

\* lines 296-336: pp.runopp in a try statement, the test of its success and
\* the value returned
RunOpp ==
    /\ qpc = "runopp"
    /\ \E outcome \in SolverOutcomes, flag \in {opf_net.converged} \cup Flags,
          cost \in {opf_net.res_cost, "nan", "number"} :
          /\ outcome = "converged" => cost = "number"
          /\ outcome # "converged" =>
                /\ flag \in {opf_net.converged, "False"}
                /\ cost \in {opf_net.res_cost, "nan"}
          /\ opf_net' = [converged     |-> flag,
                         OPF_converged |-> IF outcome = "converged" THEN "True"
                                           ELSE IF outcome = "raised"
                                           THEN opf_net.OPF_converged ELSE "False",
                         res_cost      |-> cost]
          /\ solver_report' = outcome
          /\ opf_result' = IF outcome = "raised" THEN "False"
                           ELSE IF IsSuccess(opf_net') THEN "True" ELSE "False"
    /\ qpc' = "returned"
    /\ UNCHANGED <<init_mode, solves>>
    /\ UNCHANGED outsideSolveOpf

\* run_scenario lines 80-84: the with statement raised when it was left, and
\* the except clause calls _solve_opf once more on the same network
SolveAgain ==
    /\ qpc = "returned"
    /\ solves < MaxSolves
    /\ solves' = solves + 1
    /\ qpc' = "warm_start"
    /\ init_mode' = "none"
    /\ solver_report' = "none"
    /\ opf_result' = "none"
    /\ UNCHANGED opf_net
    /\ UNCHANGED outsideSolveOpf

NextSolveOpf == WarmStart \/ RunOpp \/ SolveAgain

SpecSolveOpf == InitSolveOpf /\ [][NextSolveOpf]_vars

(***************************************************************************)
(* NetworkValidityChecker.check_and_clean.  A table is the set of its rows, *)
(* a row carries its index; the bus table is the set of the bus indices.   *)
(* vm_pu is in thousandths, powers are whole MW.  An issue is named by its *)
(* kind, not by its text.                                                  *)
(***************************************************************************)
\* bus.vn_kv
VnKv(b) == IF b = 1 THEN 380 ELSE 110

\* top.create_nxgraph(net, respect_switches=False): the edges, lines and transformers
GraphEdges(n) ==
    {<<l.from_bus, l.to_bus>> : l \in n.line} \cup {<<t.hv_bus, t.lv_bus>> : t \in n.trafo}

\* the buses reachable from S
RECURSIVE Reachable(_, _, _)
Reachable(S, edges, buses) ==
    LET T == S \cup {b \in buses : \E e \in edges : \/ e[1] \in S /\ e[2] = b
                                                    \/ e[2] \in S /\ e[1] = b}
    IN  IF T = S THEN S ELSE Reachable(T, edges, buses)

\* nx.connected_components(mg)
ConnectedComponents(n) == {Reachable({b}, GraphEdges(n), n.bus) : b \in n.bus}

MinOf(S) == CHOOSE x \in S : \A y \in S : x <= y

\* max(components, key=len): the first of the largest components; the components
\* come in the order of their lowest bus index
MainComponent(components) ==
    CHOOSE c \in components :
        /\ \A d \in components : Cardinality(d) <= Cardinality(c)
        /\ \A d \in components : Cardinality(d) = Cardinality(c) => MinOf(c) <= MinOf(d)

\* _check_islands without the early return of lines 62-63
CheckIslandsNoEarlyReturn ==
    /\ kpc = "islands"
    /\ LET components == ConnectedComponents(checked_net)
           keep == MainComponent(components)
       IN  IF components = {}
           THEN /\ issues_found' = Append(issues_found, "connectivity_check_failed")
                /\ UNCHANGED checked_net
           ELSE /\ checked_net' = [checked_net EXCEPT
                      !.bus = keep,
                      !.line = {l \in @ : l.from_bus \in keep /\ l.to_bus \in keep},
                      !.trafo = {t \in @ : t.hv_bus \in keep /\ t.lv_bus \in keep},
                      !.gen = {g \in @ : g.bus \in keep},
                      !.sgen = {g \in @ : g.bus \in keep},
                      !.load = {g \in @ : g.bus \in keep},
                      !.ext_grid = SelectSeq(@, LAMBDA b : b \in keep)]
                /\ issues_found' = Append(issues_found, "islands_removed")
    /\ kpc' = "zero_impedance_lines"
    /\ UNCHANGED <<skipped_elements, check_result, outsideChecker>>

\* _check_islands
CheckIslands ==
    /\ kpc = "islands"
    /\ LET components == ConnectedComponents(checked_net)
           keep == MainComponent(components)
       IN  IF Cardinality(components) = 1
           THEN UNCHANGED <<checked_net, issues_found>>
           ELSE IF components = {}        \* max() of an empty list raises ValueError
           THEN /\ issues_found' = Append(issues_found, "connectivity_check_failed")
                /\ UNCHANGED checked_net
           ELSE /\ checked_net' = [checked_net EXCEPT
                      !.bus = keep,
                      !.line = {l \in @ : l.from_bus \in keep /\ l.to_bus \in keep},
                      !.trafo = {t \in @ : t.hv_bus \in keep /\ t.lv_bus \in keep},
                      !.gen = {g \in @ : g.bus \in keep},
                      !.sgen = {g \in @ : g.bus \in keep},
                      !.load = {g \in @ : g.bus \in keep},
                      !.ext_grid = SelectSeq(@, LAMBDA b : b \in keep)]
                /\ issues_found' = Append(issues_found, "islands_removed")
    /\ kpc' = "zero_impedance_lines"
    /\ UNCHANGED <<skipped_elements, check_result, outsideChecker>>

\* _check_zero_impedance_lines
CheckZeroImpedanceLines ==
    /\ kpc = "zero_impedance_lines"
    /\ LET problematic == {l \in checked_net.line : l.r_total = 0 /\ l.x_total = 0}
       IN  IF checked_net.line = {} \/ problematic = {}
           THEN UNCHANGED <<checked_net, issues_found, skipped_elements>>
           ELSE /\ skipped_elements' = [skipped_elements EXCEPT
                                          !.lines = @ \cup {l.index : l \in problematic}]
                /\ checked_net' = [checked_net EXCEPT !.line = @ \ problematic]
                /\ issues_found' = Append(issues_found, "skipped_lines")
    /\ kpc' = "transformer_issues"
    /\ UNCHANGED <<check_result, outsideChecker>>

\* _check_transformer_issues
CheckTransformerIssues ==
    /\ kpc = "transformer_issues"
    /\ LET same_voltage_trafos == {t \in checked_net.trafo : VnKv(t.hv_bus) = VnKv(t.lv_bus)}
           zero_sn_trafos == {t \in checked_net.trafo : t.sn_mva = 0}
           problematic_trafos == same_voltage_trafos \cup zero_sn_trafos
           first  == IF same_voltage_trafos # {} THEN <<"skipped_transformers_same_voltage">>
                     ELSE <<>>
           second == IF zero_sn_trafos # {} THEN <<"skipped_transformers_zero_rating">>
                     ELSE <<>>
       IN  /\ skipped_elements' = [skipped_elements EXCEPT
                                     !.transformers = @ \cup {t.index : t \in problematic_trafos}]
           /\ checked_net' = [checked_net EXCEPT !.trafo = @ \ problematic_trafos]
           /\ issues_found' = issues_found \o first \o second
    /\ kpc' = "external_grid_conflicts"
    /\ UNCHANGED <<check_result, outsideChecker>>

\* the pass without the removal of line 193
CheckExternalGridConflictsReportOnly ==
    /\ kpc = "external_grid_conflicts"
    /\ LET ext_grid_buses == Range(checked_net.ext_grid)
           conflicts == {g.bus : g \in checked_net.gen} \cap ext_grid_buses
           conflicting_gens == {g \in checked_net.gen : g.bus \in conflicts}
       IN  /\ skipped_elements' = [skipped_elements EXCEPT
                                     !.generators = @ \cup {g.index : g \in conflicting_gens}]
           /\ issues_found' = issues_found \o (IF conflicts # {}
                                                  THEN <<"removed_pv_generators">> ELSE <<>>)
    /\ kpc' = "generator_voltage_conflicts"
    /\ UNCHANGED <<checked_net, check_result, outsideChecker>>

\* _check_external_grid_conflicts; the duplicate count is taken over list(set(...)),
\* in which no bus occurs twice
CheckExternalGridConflicts ==
    /\ kpc = "external_grid_conflicts"
    /\ LET ext_grid_buses == Range(checked_net.ext_grid)
           duplicates == {b \in ext_grid_buses : Cardinality({c \in ext_grid_buses : c = b}) > 1}
           conflicts == {g.bus : g \in checked_net.gen} \cap ext_grid_buses
           conflicting_gens == {g \in checked_net.gen : g.bus \in conflicts}
           first  == IF duplicates # {} THEN <<"duplicate_external_grids">> ELSE <<>>
           second == IF conflicts # {} THEN <<"removed_pv_generators">> ELSE <<>>
       IN  /\ skipped_elements' = [skipped_elements EXCEPT
                                     !.generators = @ \cup {g.index : g \in conflicting_gens}]
           /\ checked_net' = [checked_net EXCEPT !.gen = @ \ conflicting_gens]
           /\ issues_found' = issues_found \o first \o second
    /\ kpc' = "generator_voltage_conflicts"
    /\ UNCHANGED <<check_result, outsideChecker>>

\* sum of a column over rows
RECURSIVE SumColumn(_, _)
SumColumn(rows, col) ==
    IF rows = {} THEN 0
    ELSE LET r == CHOOSE x \in rows : TRUE IN col[r] + SumColumn(rows \ {r}, col)

\* _check_generator_voltage_conflicts
CheckGeneratorVoltageConflicts ==
    /\ kpc = "generator_voltage_conflicts"
    /\ LET gens_on_bus(b) == {g \in checked_net.gen : g.bus = b}
           conflicts == {b \in {g.bus : g \in checked_net.gen} :
                            Cardinality({g.vm_pu : g \in gens_on_bus(b)}) > 1}
           mean_vm(b) == SumColumn(gens_on_bus(b), [g \in gens_on_bus(b) |-> g.vm_pu])
                            \div Cardinality(gens_on_bus(b))
       IN  IF conflicts = {}
           THEN UNCHANGED <<checked_net, issues_found>>
           ELSE /\ checked_net' = [checked_net EXCEPT !.gen = {IF g.bus \in conflicts
                                                THEN [g EXCEPT !.vm_pu = mean_vm(g.bus)]
                                                ELSE g : g \in @}]
                /\ issues_found' = Append(issues_found, "conflicting_setpoints_resolved")
    /\ kpc' = "power_balance"
    /\ UNCHANGED <<skipped_elements, check_result, outsideChecker>>

\* _check_power_balance
CheckPowerBalance ==
    /\ kpc = "power_balance"
    /\ LET total_gen == SumColumn(checked_net.gen, [g \in checked_net.gen |-> g.p_mw])
                          + SumColumn(checked_net.sgen, [g \in checked_net.sgen |-> g.p_mw])
           total_load == SumColumn(checked_net.load, [g \in checked_net.load |-> g.p_mw])
       IN  issues_found' =
              IF total_load = 0 THEN Append(issues_found, "total_load_zero")
              ELSE IF 100 * total_gen < 90 * total_load \/ 100 * total_gen > 120 * total_load
              THEN Append(issues_found, "generation_off_load")
              ELSE issues_found
    /\ kpc' = "summary"
    /\ UNCHANGED <<checked_net, skipped_elements, check_result, outsideChecker>>

\* check_and_clean, lines 33-54: is_valid and the summary
ReturnSummary ==
    /\ kpc = "summary"
    /\ check_result' = [is_valid |-> Len(issues_found) = 0,
                       issues_count |-> Len(issues_found),
                       issues |-> issues_found,
                       buses |-> Cardinality(checked_net.bus)]
    /\ kpc' = "returned"
    /\ UNCHANGED <<checked_net, issues_found, skipped_elements, outsideChecker>>

\* the networks the checker is run on
BusSets == {{}, {1, 2}, {1, 2, 3}}

LineRows ==
    { [index |-> 1, from_bus |-> 2, to_bus |-> 3, r_total |-> 1, x_total |-> 1],
      [index |-> 2, from_bus |-> 2, to_bus |-> 3, r_total |-> 0, x_total |-> 0],
      [index |-> 3, from_bus |-> 1, to_bus |-> 3, r_total |-> 0, x_total |-> 1] }

TrafoRows ==
    { [index |-> 1, hv_bus |-> 1, lv_bus |-> 2, sn_mva |-> 600],
      [index |-> 2, hv_bus |-> 1, lv_bus |-> 2, sn_mva |-> 0],
      [index |-> 3, hv_bus |-> 2, lv_bus |-> 3, sn_mva |-> 80] }

GenRows ==
    { [index |-> 1, bus |-> 1, vm_pu |-> 1000, p_mw |-> 50],
      [index |-> 2, bus |-> 2, vm_pu |-> 1000, p_mw |-> 50],
      [index |-> 3, bus |-> 2, vm_pu |-> 1040, p_mw |-> 50] }

SgenRows == { [index |-> 1, bus |-> 3, p_mw |-> 10] }

LoadRows == { [index |-> 1, bus |-> 2, p_mw |-> 100], [index |-> 2, bus |-> 2, p_mw |-> 0] }

MaxRows == 2

\* the rows of the external grid table: bus 1 is a 380 kV bus, bus 2 a 110 kV bus,
\* bus 9 is not in the bus table
ExternalGridRows == [bus_id : {1, 2, 9}, grid_type : {"main_slack", "border"}]

ExternalGridTables == UNION {[1..n -> ExternalGridRows] : n \in 0..MaxRows}

\* config.STANDARD_VOLTAGE_LEVELS
STANDARD_VOLTAGE_LEVELS == {220, 380}

\* GridModeler._setup_external_grids on a new GridModeler: one entry for every row
\* whose bus is in the bus table
SetupExternalGrids(external_grids, buses) ==
    LET known == SelectSeq(external_grids, LAMBDA row : row.bus_id \in buses)
    IN  [i \in 1..Len(known) |-> [bus_id |-> known[i].bus_id, type |-> known[i].grid_type]]

\* GridModeler._build_network_from_components, step 2: an external grid for every
\* main_slack entry on an added bus, a PV generator for every other entry on an
\* added bus; the generators are numbered from 11 on
BuildExternalGrids(ext_grid_list, buses) ==
    LET added(eg) == eg.bus_id \in buses /\ VnKv(eg.bus_id) \in STANDARD_VOLTAGE_LEVELS
        slack  == SelectSeq(ext_grid_list, LAMBDA eg : added(eg) /\ eg.type = "main_slack")
        border == SelectSeq(ext_grid_list, LAMBDA eg : added(eg) /\ eg.type # "main_slack")
    IN  [ext_grid |-> [i \in 1..Len(slack) |-> slack[i].bus_id],
         gen |-> {[index |-> 10 + i, bus |-> border[i].bus_id, vm_pu |-> 1000, p_mw |-> 0] :
                     i \in 1..Len(border)}]

InitChecker ==
    /\ \E bus \in BusSets, external_grids \in ExternalGridTables :
         LET built == BuildExternalGrids(SetupExternalGrids(external_grids, bus), bus)
         IN
         checked_net \in [ bus : {bus},
                   line : SUBSET {l \in LineRows : l.from_bus \in bus /\ l.to_bus \in bus},
                   trafo : SUBSET {t \in TrafoRows : t.hv_bus \in bus /\ t.lv_bus \in bus},
                   gen : {built.gen \cup G : G \in SUBSET {g \in GenRows : g.bus \in bus}},
                   sgen : SUBSET {g \in SgenRows : g.bus \in bus},
                   load : {{g} : g \in {x \in LoadRows : x.bus \in bus}} \cup {{}},
                   ext_grid : {built.ext_grid} ]
    /\ issues_found = <<>>
    /\ skipped_elements = [lines |-> {}, transformers |-> {}, generators |-> {}]
    /\ kpc = "islands"
    /\ check_result = <<>>
    /\ DecompIdle /\ TopoIdle /\ SubIdle /\ OpfIdle /\ LoadIdle /\ CacheIdle
    /\ CliIdle /\ SolverIdle /\ SolveOpfIdle /\ RegistryIdle

NextChecker ==
    \/ CheckIslands \/ CheckZeroImpedanceLines \/ CheckTransformerIssues
    \/ CheckExternalGridConflicts \/ CheckGeneratorVoltageConflicts
    \/ CheckPowerBalance \/ ReturnSummary

SpecChecker == InitChecker /\ [][NextChecker]_vars

\* the passes in the order of check_and_clean
PassOrder ==
    <<"islands", "zero_impedance_lines", "transformer_issues", "external_grid_conflicts",
      "generator_voltage_conflicts", "power_balance">>

\* the pass that has just run is run a second time, once in a run of the checker;
\* check_result holds its name until the summary is returned
RunPassAgain ==
    /\ \E i \in 2..Len(PassOrder) :
          /\ kpc = PassOrder[i]
          /\ check_result = <<>>
          /\ kpc' = PassOrder[i - 1]
          /\ check_result' = <<PassOrder[i - 1]>>
    /\ UNCHANGED <<checked_net, issues_found, skipped_elements, outsideChecker>>

NextTwice == NextChecker \/ RunPassAgain

SpecTwice == InitChecker /\ [][NextTwice]_vars

(***************************************************************************)
(* GridModeler.create_base_network and its cache file.  A base network is  *)
(* named by the version of the raw data it was built from; every build     *)
(* configures one external grid, named the same way.                       *)
(***************************************************************************)
MaxVersion == 2       \* versions of the raw data
MaxCalls   == 3       \* calls of create_base_network
MaxGrids   == 2       \* entries of a modeler's ext_grid_list

NoFile      == [exists |-> FALSE]
GarbageFile == [exists |-> TRUE, readable |-> FALSE]
PickleOf(pair) == [exists |-> TRUE, readable |-> TRUE, pair |-> pair]

\* line 33 with FORCE_NETWORK_REBUILD ignored
CacheIsTriedAlways(force, file) == file.exists

\* line 33: not config.FORCE_NETWORK_REBUILD and os.path.exists(cache_path)
CacheIsTried(force, file) == ~force /\ file.exists

\* GridModeler()
NewModeler ==
    /\ modeler # <<>>
    /\ modeler' = [base_net |-> 0, ext_grid_list |-> <<>>]
    /\ UNCHANGED <<cache_file, force_rebuild, raw_data, cb_calls, cb_result, outsideCache>>

\* GridModeler.create_base_network(); load_ok: pickle.load and the unpacking succeed
CreateBaseNetwork ==
    /\ modeler # <<>>
    /\ cb_calls < MaxCalls
    /\ Len(modeler.ext_grid_list) < MaxGrids
    /\ cb_calls' = cb_calls + 1
    /\ \E load_ok \in (IF cache_file.exists /\ cache_file.readable THEN BOOLEAN ELSE {FALSE}) :
         IF CacheIsTried(force_rebuild, cache_file) /\ load_ok
         THEN \* lines 36-39
              /\ modeler' = [base_net |-> cache_file.pair[1],
                             ext_grid_list |-> cache_file.pair[2]]
              /\ cb_result' = [rebuilt |-> FALSE, cache_load |-> "ok", ended |-> "returned",
                               pair |-> cache_file.pair]
              /\ UNCHANGED cache_file
         ELSE IF raw_data = 0
         THEN \* _load_data raises FileNotFoundError
              /\ cb_result' = [rebuilt |-> TRUE, ended |-> "raised",
                               cache_load |-> IF CacheIsTried(force_rebuild, cache_file)
                                              THEN "failed" ELSE "not tried"]
              /\ UNCHANGED <<modeler, cache_file>>
         ELSE \* lines 43-103
              LET built == [base_net |-> raw_data,
                            ext_grid_list |-> Append(modeler.ext_grid_list, raw_data)]
                  pair  == <<built.base_net, built.ext_grid_list>>
              IN  /\ modeler' = built
                  /\ cache_file' = PickleOf(pair)
                  /\ cb_result' = [rebuilt |-> TRUE, ended |-> "returned", pair |-> pair,
                                   cache_load |-> IF CacheIsTried(force_rebuild, cache_file)
                                                  THEN "failed" ELSE "not tried"]
    /\ UNCHANGED <<force_rebuild, raw_data, outsideCache>>

\* dashboard.py 59-63: the button removes the cache file
RemoveCacheFile ==
    /\ modeler # <<>>
    /\ cache_file.exists
    /\ cache_file' = NoFile
    /\ UNCHANGED <<force_rebuild, raw_data, modeler, cb_calls, cb_result, outsideCache>>

\* between calls: config.py is edited, the data directory is replaced, the cache file
\* is damaged
ChangeEnvironment ==
    /\ modeler # <<>>
    /\ \/ /\ force_rebuild' = ~force_rebuild
          /\ UNCHANGED <<raw_data, cache_file>>
       \/ /\ raw_data' \in (0..MaxVersion) \ {raw_data}
          /\ UNCHANGED <<force_rebuild, cache_file>>
       \/ /\ cache_file.exists /\ cache_file.readable
          /\ cache_file' = GarbageFile
          /\ UNCHANGED <<force_rebuild, raw_data>>
    /\ UNCHANGED <<modeler, cb_calls, cb_result, outsideCache>>

InitCache ==
    /\ cache_file \in {NoFile, GarbageFile}
    /\ force_rebuild \in BOOLEAN
    /\ raw_data \in 0..MaxVersion
    /\ modeler = [base_net |-> 0, ext_grid_list |-> <<>>]
    /\ cb_calls = 0
    /\ cb_result = <<>>
    /\ DecompIdle /\ TopoIdle /\ SubIdle /\ OpfIdle /\ LoadIdle /\ CheckerIdle
    /\ CliIdle /\ SolverIdle /\ SolveOpfIdle /\ RegistryIdle

NextCache == NewModeler \/ CreateBaseNetwork \/ RemoveCacheFile \/ ChangeEnvironment

SpecCache == InitCache /\ [][NextCache]_vars

(***************************************************************************)
(* Command line: powerflow/__main__.py. The command list given on the      *)
(* command line is completed with the commands that have not been run, and *)
(* the commands of the list are run one after the other.                   *)
(***************************************************************************)
MaxArgs == 3

\* the keys of command_info in their order
command_info == <<"fetch-db", "data-prep", "create-model", "analysis">>

CommandNames == {command_info[i] : i \in 1..Len(command_info)}

\* the place of a command in command_info
Position(c) == CHOOSE i \in 1..Len(command_info) : command_info[i] = c

\* the 'test' entries, evaluated once when command_info is built; 'results/' names
\* a directory, which os.path.isfile never reports as a file
CommandTests == {t \in [CommandNames -> BOOLEAN] : ~t["analysis"]}

\* nargs='+' with choices=command_info.keys(): any non-empty list of commands
ArgLists == UNION {[1..n -> CommandNames] : n \in 1..MaxArgs}

\* an insertion that ignores the position
InsertFront(list, i, x) == <<x>> \o list

\* list.insert(i, x) for 0 <= i <= len(list)
Insert(list, i, x) == SubSeq(list, 1, i) \o <<x>> \o SubSeq(list, i + 1, Len(list))

\* x in list
InList(x, list) == \E k \in 1..Len(list) : list[k] = x

\* after line 108
InitCli ==
    /\ command_test \in CommandTests
    /\ requested \in ArgLists
    /\ commands = requested
    /\ target_command = requested[Len(requested)]
    /\ insert_counter = 0
    /\ fill_i = 1
    /\ executed = <<>>
    /\ mpc = "fill"
    /\ DecompIdle /\ TopoIdle /\ SubIdle /\ OpfIdle
    /\ LoadIdle /\ CheckerIdle /\ CacheIdle /\ SolverIdle /\ SolveOpfIdle /\ RegistryIdle

\* one iteration of the completion loop, lines 109-114
FillStep ==
    /\ mpc = "fill"
    /\ LET command == command_info[fill_i]
           missing == ~InList(command, commands) /\ ~command_test[command]
           last    == command = target_command \/ fill_i = Len(command_info)
       IN  /\ commands' = (IF missing THEN Insert(commands, insert_counter, command)
                                      ELSE commands)
           /\ insert_counter' = (IF missing THEN insert_counter + 1 ELSE insert_counter)
           /\ fill_i' = (IF last THEN fill_i ELSE fill_i + 1)
           /\ mpc' = (IF last THEN "run" ELSE "fill")
    /\ UNCHANGED <<command_test, requested, target_command, executed>>
    /\ UNCHANGED outsideCli

\* one iteration of the run loop, lines 132-151: the command's function returns
RunCommand ==
    /\ mpc = "run"
    /\ executed' = Append(executed, commands[Len(executed) + 1])
    /\ mpc' = (IF Len(executed') = Len(commands) THEN "done" ELSE "run")
    /\ UNCHANGED <<command_test, requested, commands, target_command, insert_counter, fill_i>>
    /\ UNCHANGED outsideCli

\* line 146: the command's function raises (or exits) and the program ends
CommandRaises ==
    /\ mpc = "run"
    /\ executed' = Append(executed, commands[Len(executed) + 1])
    /\ mpc' = "raised"
    /\ UNCHANGED <<command_test, requested, commands, target_command, insert_counter, fill_i>>
    /\ UNCHANGED outsideCli

NextCli == FillStep \/ RunCommand \/ CommandRaises

SpecCli == InitCli /\ [][NextCli]_vars

(***************************************************************************)
(* Power flow: PowerFlowSolver.solve. The solver library is outside the    *)
(* program: a call of runpp or rundcpp converges, returns without          *)
(* converging, or raises.                                                  *)
(***************************************************************************)
MaxAlgs == 2

Algorithms == {"nr", "bfsw", "gs"}

\* the three names of the config module that solve() reads
ConfigNames == {"ALGORITHM_SEQUENCE", "MAX_ITERATION", "TOLERANCE_MVA"}

\* config.py as it is: it defines PF_ALGORITHM_SEQUENCE, PF_MAX_ITERATION and
\* PF_TOLERANCE_MVA, and none of the names that solve() reads
RepoConfig == [names |-> {}, ALGORITHM_SEQUENCE |-> <<>>]

\* config.PF_ALGORITHM_SEQUENCE
PF_ALGORITHM_SEQUENCE == <<"nr", "bfsw", "gs">>

\* the sequences a config module may give to ALGORITHM_SEQUENCE
AlgorithmSequences ==
    {PF_ALGORITHM_SEQUENCE} \cup UNION {[1..n -> Algorithms] : n \in 0..MaxAlgs}

\* config.py as it is, and config modules that define ALGORITHM_SEQUENCE and any of
\* the other two names
Configs ==
    {RepoConfig} \cup
    {[names |-> {"ALGORITHM_SEQUENCE"} \cup N, ALGORITHM_SEQUENCE |-> a] :
        N \in SUBSET {"MAX_ITERATION", "TOLERANCE_MVA"}, a \in AlgorithmSequences}

\* the algorithms of the second loop, line 36
RelaxedAlgorithms == <<"nr", "gs">>

\* what a call into the solver library may do
Outcomes == {"converged", "not_converged", "raised"}

\* PowerFlowSolver.__init__
InitSolver ==
    /\ config \in Configs
    /\ silent \in BOOLEAN
    /\ self_converged = FALSE
    /\ algorithm_used = <<>>
    /\ attempts = <<>>
    /\ alg_i = 0
    /\ solve_result = "none"
    /\ spc = "new"
    /\ DecompIdle /\ TopoIdle /\ SubIdle /\ OpfIdle
    /\ LoadIdle /\ CheckerIdle /\ CacheIdle /\ CliIdle /\ SolveOpfIdle /\ RegistryIdle

\* line 20: algorithms = config.ALGORITHM_SEQUENCE, an AttributeError when the config
\* module does not define the name
StartSolve ==
    /\ spc = "new"
    /\ IF "ALGORITHM_SEQUENCE" \in config.names
          THEN /\ spc' = (IF Len(config.ALGORITHM_SEQUENCE) = 0 THEN "relaxed"
                                                                   ELSE "standard")
               /\ alg_i' = 1
               /\ solve_result' = solve_result
          ELSE /\ spc' = "ended"
               /\ alg_i' = alg_i
               /\ solve_result' = "AttributeError"
    /\ UNCHANGED <<config, silent, self_converged, algorithm_used, attempts>>
    /\ UNCHANGED outsideSolver

\* lines 27-31, 40-44, 53-57: the attempt converged
ReturnTrue(used) ==
    /\ self_converged' = TRUE
    /\ algorithm_used' = used
    /\ solve_result' = "True"
    /\ spc' = "ended"
    /\ alg_i' = alg_i

\* the attempt did not converge or raised: on to the next position
Continue(phase, i) ==
    /\ spc' = phase
    /\ alg_i' = i
    /\ UNCHANGED <<self_converged, algorithm_used, solve_result>>

\* one iteration of the first loop, lines 23-33; the arguments of runpp are evaluated
\* inside the try, so a missing MAX_ITERATION or TOLERANCE_MVA raises there and
\* runpp is not called
StandardAttempt ==
    /\ spc = "standard"
    /\ LET alg  == config.ALGORITHM_SEQUENCE[alg_i]
           last == alg_i = Len(config.ALGORITHM_SEQUENCE)
       IN  \E outcome \in (IF {"MAX_ITERATION", "TOLERANCE_MVA"} \subseteq config.names
                              THEN Outcomes ELSE {"AttributeError"}) :
              /\ attempts' = Append(attempts, [alg |-> alg, settings |-> "standard",
                                               outcome |-> outcome])
              /\ IF outcome = "converged"
                    THEN ReturnTrue(<<alg>>)
                    ELSE IF last THEN Continue("relaxed", 1)
                                 ELSE Continue("standard", alg_i + 1)
    /\ UNCHANGED <<config, silent>>
    /\ UNCHANGED outsideSolver

\* one iteration of the second loop, lines 36-46
RelaxedAttempt ==
    /\ spc = "relaxed"
    /\ LET alg  == RelaxedAlgorithms[alg_i]
           last == alg_i = Len(RelaxedAlgorithms)
       IN  \E outcome \in Outcomes :
              /\ attempts' = Append(attempts, [alg |-> alg, settings |-> "relaxed",
                                               outcome |-> outcome])
              /\ IF outcome = "converged"
                    THEN ReturnTrue(<<alg, "(relaxed)">>)
                    ELSE IF last THEN Continue("dc", 1)
                                 ELSE Continue("relaxed", alg_i + 1)
    /\ UNCHANGED <<config, silent>>
    /\ UNCHANGED outsideSolver

\* lines 49-59: rundcpp, then runpp started from its results; when rundcpp raises,
\* runpp is not called
DcAttempt ==
    /\ spc = "dc"
    /\ \E outcome \in Outcomes \cup {"rundcpp raised"} :
          /\ attempts' = Append(attempts, [alg |-> "nr", settings |-> "dc",
                                           outcome |-> outcome])
          /\ IF outcome = "converged"
                THEN ReturnTrue(<<"nr", "(DC-init)">>)
                ELSE Continue("failed", alg_i)
    /\ UNCHANGED <<config, silent>>
    /\ UNCHANGED outsideSolver

\* lines 62-67: the diagnosis is printed unless silent, and False is returned
ReturnFalse ==
    /\ spc = "failed"
    /\ solve_result' = "False"
    /\ spc' = "ended"
    /\ UNCHANGED <<config, silent, self_converged, algorithm_used, attempts, alg_i>>
    /\ UNCHANGED outsideSolver

NextSolver == StartSolve \/ StandardAttempt \/ RelaxedAttempt \/ DcAttempt \/ ReturnFalse

SpecSolver == InitSolver /\ [][NextSolver]_vars

(***************************************************************************)
(* Claims about the circuit decomposition                                  *)
(***************************************************************************)
RECURSIVE SumCables(_)
SumCables(cs) == IF cs = <<>> THEN 0 ELSE Head(cs).cables + SumCables(Tail(cs))

\* the loop has emitted all its circuits
LoopFinished ==
    \/ conn.pc = "registered"
    \/ conn.pc = "loop" /\ conn.remaining_circuits <= 0

\* C1: a connection built from a record that gives the cables field holds
\* circuits whose cable counts add up to at most the declared number of cables.
C1_CableSumWithinDeclared ==
    (conn.pc = "registered" /\ rec.cables # <<>>)
        => SumCables(conn.circuits) <= SumSeq(rec.cables)

\* C2: every circuit the loop emits has a cable count that is a whole multiple
\* of its phase count, and Circuit.__init__ never raises CablesPerPhaseError.
C2_CablesMultipleOfPhases ==
    /\ conn.pc # "CablesPerPhaseError"
    /\ conn.pc \in {"loop", "registered"} =>
          \A i \in DOMAIN conn.emitted :
              /\ conn.emitted[i].cables % conn.emitted[i].phases = 0
              /\ conn.emitted[i].systems * conn.emitted[i].phases = conn.emitted[i].cables

\* a record whose circuits span two systems per phase on a two-phase circuit
C2_Witness ==
    /\ conn.pc = "registered"
    /\ \E i \in DOMAIN conn.emitted :
          conn.emitted[i].phases = 2 /\ conn.emitted[i].cables = 4
    /\ \E i \in DOMAIN conn.emitted :
          conn.emitted[i].phases = 3 /\ conn.emitted[i].cables = 6

\* the split that the cables field spells out: position i, cables_i / 3 times
CableSplit(cables_list) == Ci2viFrom([i \in DOMAIN cables_list |-> cables_list[i] \div 3], 0)

SeveralCablesDivisibleBy3 ==
    /\ Len(rec.cables) > 1
    /\ \A i \in DOMAIN rec.cables : rec.cables[i] % 3 = 0
    /\ Len(rec.circuits) = 1

EmittedVoltageIndices == [i \in DOMAIN conn.emitted |-> conn.emitted[i].vidx]

\* C3 as stated: cables values all divisible by 3 and one circuits value always
\* give the split cables_i / 3 per list position.
C3_SplitFollowsCablesAlways ==
    (LoopFinished /\ SeveralCablesDivisibleBy3)
        => EmittedVoltageIndices = CableSplit(rec.cables)

\* C3 amended: the split is cables_i / 3 per list position when, besides, the
\* circuits value does not exceed the sum of cables_i / 3, the record has no more
\* grid voltages than that sum, and the frequency is absent, "50" or "0".
C3_SplitFollowsCables ==
    ( /\ LoopFinished
      /\ SeveralCablesDivisibleBy3
      /\ rec.circuits[1] <= SumSeq(rec.cables) \div 3
      /\ Len(conn.voltages) <= SumSeq(rec.cables) \div 3
      /\ rec.frequency \in {<<>>, <<F50>>, <<F0>>} )
        => /\ EmittedVoltageIndices = CableSplit(rec.cables)
           /\ \A i \in DOMAIN conn.emitted :
                 conn.emitted[i].voltage =
                     conn.voltages[(conn.emitted[i].vidx % Len(conn.voltages)) + 1]

\* cables "9;3" with circuits "4" on two voltages: three circuits, then one
C3_Witness ==
    /\ conn.pc = "registered"
    /\ rec.cables = <<9, 3>> /\ rec.circuits = <<4>>
    /\ rec.voltages = <<380000, 220000>>
    /\ EmittedVoltageIndices = <<0, 0, 0, 1>>
    /\ [i \in DOMAIN conn.emitted |-> conn.emitted[i].voltage]
          = <<380000, 380000, 380000, 220000>>

(***************************************************************************)
(* Claims about the topology                                               *)
(***************************************************************************)
\* the resolution loop has processed every connection point
ResolutionDone == tpc # "idle" /\ ci > Len(connpoint_list)

\* C4: once the resolution loop has processed all connection points, no
\* connection has startNode equal to endNode.
C4_NoSelfLoop ==
    ResolutionDone => \A c \in DOMAIN conns : conns[c].startNode # conns[c].endNode

\* a connection with both ends within reach of one substation: one end took
\* the substation, the other end was refused it and stays None
C4_Witness ==
    /\ tpc = "dfs"
    /\ \E c \in DOMAIN conns, n \in DOMAIN nodes :
          /\ nodes[n].type = "SUBSTATION"
          /\ search_result[conns[c].startPoint].sub = n
          /\ search_result[conns[c].endPoint].sub = n
          /\ {conns[c].startNode, conns[c].endNode} = {n, None}

IslandsRemoved == tpc \in {"test", "done", "KeyError", "NullReferences"}

\* C5: after resolution and island removal every kept connection refers only
\* to None or to kept nodes, every bus id written to the connections table is
\* a kept node, and neither the table output nor the reference test raises.
C5_KeptConnsReferToKeptNodes ==
    /\ tpc \notin {"KeyError", "NullReferences"}
    /\ IslandsRemoved =>
          /\ TestRefs(conns, DOMAIN nodes) \subseteq {None}
          /\ WrittenBusRefs(conns) \subseteq DOMAIN nodes

\* two vertices are the startNode and endNode of one connection
Adjacent(a, b, cs) ==
    \E c \in DOMAIN cs : {cs[c].startNode, cs[c].endNode} = {a, b}

\* the vertices joined to those of S by a path of connections
RECURSIVE Component(_, _, _)
Component(S, ids, cs) ==
    LET T == S \cup {n \in ids : \E m \in S : Adjacent(m, n, cs)}
    IN  IF T = S THEN S ELSE Component(T, ids, cs)

\* C6: the island filter keeps exactly the vertices joined to the seed vertex
\* by a path of connections, and exactly the connections between kept vertices.
C6_KeepsExactlySeedComponent ==
    tpc = "delete" =>
        LET kept == Component({start_node}, DOMAIN nodes, conns)
        IN  /\ DOMAIN nodes \ unvisited_nodes = kept
            /\ \A c \in DOMAIN conns :
                  ({conns[c].startNode, conns[c].endNode} \subseteq kept)
                      => c \notin unvisited_conns
            /\ \A c \in DOMAIN conns \ unvisited_conns :
                  {conns[c].startNode, conns[c].endNode} \cap kept # {}

\* C7: every vertex and every connection removed by the island filter is in
\* the persisted records of deleted elements, and nothing else is.
C7_PrunedAreRecorded ==
    IslandsRemoved =>
        /\ deleted_subs = unvisited_nodes
        /\ deleted_conns = unvisited_conns

(***************************************************************************)
(* Claims about processing the endpoint list twice                         *)
(***************************************************************************)
SecondPassDone == pass = 2 /\ ci > Len(connpoint_list)

\* the id of every branch is "br", the sorted ids of its connections and, from
\* the second branch with those connections on, the counter; a branch with
\* counter nr has its predecessors 1..nr-1 at other coordinates
BranchIdsFollowKey(nn) ==
    \A n \in DOMAIN nn :
        nn[n].type = "BRANCH" =>
            LET key == SortedSeq(Range(nn[n].connections))
                IdOf(k) == <<"br">> \o key \o (IF k > 1 THEN <<k>> ELSE <<>>)
            IN  \E nr \in 1..Cardinality(DOMAIN nn) :
                    /\ n = IdOf(nr)
                    /\ \A k \in 1..(nr - 1) :
                          IdOf(k) \in DOMAIN nn /\ nn[IdOf(k)].coords # nn[n].coords

EndNodesOf(cs) == [c \in DOMAIN cs |-> <<cs[c].startNode, cs[c].endNode>>]

BranchBesideSubstation ==
    \E p, q \in DOMAIN search_result :
        /\ Dist(p, q) <= MAX_DISTANCE_BRANCH_M
        /\ search_result[p].sub = None
        /\ search_result[q].sub # None

DispatchBounds(net) ==
    [gen     |-> [i \in DOMAIN net.gen.rows |->
                     <<net.gen.rows[i].p_mw, net.gen.rows[i].max_p_mw, net.gen.rows[i].min_p_mw>>],
     sgen    |-> [i \in DOMAIN net.sgen.rows |->
                     <<net.sgen.rows[i].p_mw, net.sgen.rows[i].max_p_mw, net.sgen.rows[i].min_p_mw>>],
     storage |-> [i \in DOMAIN net.storage.rows |->
                     <<net.storage.rows[i].p_mw, net.storage.rows[i].max_p_mw,
                       net.storage.rows[i].min_p_mw>>],
     load    |-> net.load]

\* C10: whatever run_scenario and _apply_scenario calls were made, the tables
\* of base_net equal their initial values, and the dispatch bounds of the
\* scenario network, and of the network last returned, are those that the
\* scenario gives on the initial network.
C10_BaseNetNeverMutated ==
    base_net # 0 =>
        /\ heap[base_net] = initial_net
        /\ scenario_net # 0 =>
              DispatchBounds(heap[scenario_net])
                  = DispatchBounds(ApplyScenarioTo(initial_net, current_scenario_config))
        /\ returned # <<>> =>
              \E scenario_data \in Scenarios :
                  /\ DispatchBounds(heap[returned.net])
                        = DispatchBounds(ApplyScenarioTo(initial_net, scenario_data))
                  /\ returned.info.load_scale = Get(scenario_data, "load_scale", 100)

\* three scenarios have been run, another was applied by itself since, and the
\* scenario network differs from the base network in its dispatch bounds
C10_Witness ==
    /\ Cardinality(opf_logs) = 3
    /\ scenario_net # 0
    /\ returned # <<>> /\ returned.net # scenario_net
    /\ DispatchBounds(heap[scenario_net]) # DispatchBounds(initial_net)
    /\ heap[returned.net] # heap[scenario_net]

(***************************************************************************)
(* Claims about the loaders                                                *)
(***************************************************************************)
ListedErrors == {"NoVoltageError", "NoValidCircuitError", "CircuitCountError",
                 "PowerFrequencyError", "CablesPerPhaseError"}

\* C11: a record whose constructor raises NoVoltageError, NoValidCircuitError,
\* CircuitCountError, PowerFrequencyError or CablesPerPhaseError is skipped (the
\* loop continues with the next record) and never terminates the run
C11_ListedErrorsAreSkipped ==
    \A i \in DOMAIN handled :
        handled[i].raised \in ListedErrors => handled[i].did = "continue"

\* C12: a registered Connection has at least one circuit, every one of them accepted
\* by the filter; a constructor whose loop ends with no accepted circuit raises
\* NoValidCircuitError and registers nothing
C12_RegisteredHasCircuit ==
    /\ [](conn.pc = "registered" =>
            /\ Len(conn.circuits) >= 1
            /\ \A i \in DOMAIN conn.circuits : FilterPasses(rec.filter, conn.circuits[i].voltage))
    /\ [][(conn.pc = "loop" /\ conn.remaining_circuits <= 0 /\ Len(conn.circuits) < 1)
            => conn'.pc = "NoValidCircuitError"]_vars

\* a constructor is at the end of its loop, has built circuits and accepted none of them
C12_Witness ==
    /\ conn.pc = "loop" /\ conn.remaining_circuits <= 0
    /\ Len(conn.emitted) >= 2 /\ Len(conn.circuits) = 0
    /\ rec.filter.given

(***************************************************************************)
(* Claims about the voltages of the vertices                               *)
(***************************************************************************)
\* the connections whose startNode or endNode is n
TerminatingAt(n) == {c \in DOMAIN conns : conns[c].startNode = n \/ conns[c].endNode = n}

\* C13: after voltage reconciliation and island removal the voltage set of every
\* remaining vertex is the union of the circuit voltages of exactly the connections
\* whose startNode or endNode is that vertex
C13_VoltagesOfTerminatingConns ==
    IslandsRemoved =>
        \A n \in DOMAIN nodes :
            node_voltages[n] = UNION {CircuitVoltages(c) : c \in TerminatingAt(n)}

(***************************************************************************)
(* Claims about the network validity checker                               *)
(***************************************************************************)
\* the findings a pass corrects by itself
AutoCorrected == {"islands_removed", "skipped_lines", "skipped_transformers_same_voltage",
                  "skipped_transformers_zero_rating", "removed_pv_generators",
                  "conflicting_setpoints_resolved"}

\* C14: check_and_clean returns is_valid = false only if an issue remains that no pass
\* resolved; automatically corrected findings alone do not make is_valid false
C14_InvalidOnlyIfUnresolved ==
    (kpc = "returned" /\ ~check_result.is_valid) =>
        \E i \in DOMAIN issues_found : issues_found[i] \notin AutoCorrected

\* C18: when check_and_clean has run all its passes, the buses of the network form a
\* single connected component over the remaining lines and transformers
C18_SingleComponentAfterPasses ==
    kpc = "returned" => Cardinality(ConnectedComponents(checked_net)) <= 1

(***************************************************************************)
(* Claims about the scenario parameters                                    *)
(***************************************************************************)
\* Python's `a in b` for the type names of the model
IsSubstring(a, b) == a = b \/ <<a, b>> \in {<<"coal", "hard_coal">>, <<"wind", "wind_onshore">>}

\* exact key, else a key that matches by substring, else the default of 100 %
ThreeTierFactor(cfs, gen_type) ==
    IF gen_type \in DOMAIN cfs THEN cfs[gen_type]
    ELSE IF \E key \in DOMAIN cfs : IsSubstring(key, gen_type) \/ IsSubstring(gen_type, key)
    THEN cfs[CHOOSE key \in DOMAIN cfs : IsSubstring(key, gen_type) \/ IsSubstring(gen_type, key)]
    ELSE 100

\* the nameplate power of row i of a table of the base network
Nameplate(df, i) ==
    IF df.has_max_p_mw /\ df.rows[i].max_p_mw > 0 THEN df.rows[i].max_p_mw ELSE df.rows[i].p_mw

ElementTables == {"gen", "sgen", "storage"}

\* C15: the capacity factor applied to an element of the scenario network is that of
\* the exact type key, else that of a key matching by substring, else the default
C15_ThreeTierLookup ==
    scenario_net # 0 =>
        \A et \in ElementTables : \A i \in DOMAIN initial_net[et].rows :
            initial_net[et].rows[i].type # "border" =>
                heap[scenario_net][et].rows[i].p_mw =
                    (Nameplate(initial_net[et], i)
                       * ThreeTierFactor(Get(current_scenario_config, "capacity_factors", <<>>),
                                         initial_net[et].rows[i].type)) \div 100

\* the capacity of row i of a table of the base network under the scenario:
\* nameplate power times the capacity factor of its type
CapOf(df, i, scenario_data) ==
    (Nameplate(df, i) * Get(Get(scenario_data, "capacity_factors", <<>>), df.rows[i].type, 100))
        \div 100

\* C16: a storage element gets (min_p_mw, max_p_mw) = (-cap, 0) in charge_only mode,
\* (0, cap) in discharge_only mode and (-cap, cap) otherwise, with cap = nameplate power
\* times capacity factor; every element that is no border generator and whose
\* nameplate power and factor are not negative has min_p_mw <= max_p_mw
C16_StorageBoundsByMode ==
    scenario_net # 0 =>
        LET made == heap[scenario_net]
            mode == Get(current_scenario_config, "storage_mode", "bidirectional")
        IN  /\ \A i \in DOMAIN initial_net.storage.rows :
                  initial_net.storage.rows[i].type # "border" =>
                     LET cap == CapOf(initial_net.storage, i, current_scenario_config)
                         row == made.storage.rows[i]
                     IN  <<row.min_p_mw, row.max_p_mw>> =
                            IF mode = "charge_only" THEN <<0 - cap, 0>>
                            ELSE IF mode = "discharge_only" THEN <<0, cap>>
                            ELSE <<0 - cap, cap>>
            /\ \A et \in ElementTables : \A i \in DOMAIN initial_net[et].rows :
                  (/\ initial_net[et].rows[i].type # "border"
                   /\ Nameplate(initial_net[et], i) >= 0
                   /\ Get(Get(current_scenario_config, "capacity_factors", <<>>),
                          initial_net[et].rows[i].type, 100) >= 0)
                  => made[et].rows[i].min_p_mw <= made[et].rows[i].max_p_mw

\* a charge_only scenario has been run on a network with a storage unit of positive
\* capacity and one of negative nameplate power
C16_Witness ==
    /\ scenario_net # 0
    /\ Get(current_scenario_config, "storage_mode", "bidirectional") = "charge_only"
    /\ Len(initial_net.storage.rows) = 2
    /\ heap[scenario_net].storage.rows[1].min_p_mw < 0
    /\ heap[scenario_net].storage.rows[1].max_p_mw = 0
    /\ Nameplate(initial_net.storage, 2) < 0
    /\ heap[scenario_net].storage.rows[2].min_p_mw > heap[scenario_net].storage.rows[2].max_p_mw

(***************************************************************************)
(* Claims about the network cache                                          *)
(***************************************************************************)
\* a step that is a call of create_base_network
IsCall == cb_calls' = cb_calls + 1

\* the cache file exists, the force-rebuild flag is off and the cache loaded without
\* error in the call just made
CacheUsable ==
    /\ cache_file.exists /\ ~force_rebuild
    /\ cache_file.readable /\ cb_result'.cache_load = "ok"

\* C17 as stated: a call reuses the cached pair without rebuilding if and only if the
\* cache file exists, the flag is off and the cache loads; in every other case it
\* rebuilds and overwrites the cache with the pair it returns
C17_RebuildAlwaysOverwrites ==
    [][IsCall =>
          /\ ~cb_result'.rebuilt <=> CacheUsable
          /\ cb_result'.rebuilt =>
                /\ cb_result'.ended = "returned"
                /\ cb_result'.pair[1] = raw_data
                /\ cache_file' = PickleOf(cb_result'.pair)]_vars

\* C17: a call reuses the cached pair without rebuilding if and only if the cache file
\* exists, the flag is off and the cache loads without error; the cache is not even
\* tried when the file is missing or the flag is on; a rebuild that returns builds from
\* the raw data and overwrites the cache; a call that returns leaves in the cache file
\* the pair it returned; a call that raises leaves the cache file as it was
C17_ReturnedPairIsCached ==
    [][IsCall =>
          /\ ~cb_result'.rebuilt <=> CacheUsable
          /\ ~cb_result'.rebuilt =>
                /\ cb_result'.pair = cache_file.pair
                /\ cache_file' = cache_file
          /\ (~cache_file.exists \/ force_rebuild) <=> cb_result'.cache_load = "not tried"
          /\ ~(cache_file.exists /\ cache_file.readable) => cb_result'.cache_load # "ok"
          /\ (cb_result'.rebuilt /\ cb_result'.ended = "returned") =>
                /\ cb_result'.pair[1] = raw_data
                /\ raw_data # 0
          /\ cb_result'.ended = "returned" => cache_file' = PickleOf(cb_result'.pair)
          /\ cb_result'.ended = "raised" => cache_file' = cache_file /\ raw_data = 0]_vars

\* a call has reused the cache that an earlier call had written from other raw data
C17_Witness ==
    /\ cb_calls >= 2
    /\ cb_result # <<>> /\ ~cb_result.rebuilt
    /\ cb_result.pair[1] # raw_data /\ raw_data # 0
    /\ cache_file = PickleOf(cb_result.pair)

(***************************************************************************)
(* Claims about the command line                                           *)
(***************************************************************************)
\* the commands before the target in command_info that have not been run
Prerequisites ==
    {c \in CommandNames : Position(c) < Position(target_command) /\ ~command_test[c]}

\* the prerequisites the command line does not name, in the order of command_info
Added ==
    SelectSeq(command_info,
              LAMBDA c : c \in Prerequisites /\ ~InList(c, requested))

\* C19 as stated: when all commands have run, every command before the target that had
\* not been run is among them, and it ran before every command that comes after it in
\* the order fetch-db, data-prep, create-model, analysis.
C19_PrerequisitesBeforeLater ==
    mpc = "done" =>
        \A p \in Prerequisites :
            /\ InList(p, executed)
            /\ \A k \in 1..Len(executed) :
                   Position(executed[k]) > Position(p) =>
                       \E j \in 1..(k - 1) : executed[j] = p

\* C19 amended: the completed list is the prerequisites the command line does not name,
\* in the order of command_info, followed by the command line as given; the commands
\* run in the order of that list, until one raises; so when all have run, every
\* prerequisite has run, and each added one before every command of the command line.
C19_AddedFirstThenAsRequested ==
    /\ mpc \in {"run", "done", "raised"} => commands = Added \o requested
    /\ Len(executed) <= Len(commands)
    /\ executed = SubSeq(commands, 1, Len(executed))
    /\ mpc = "done" =>
          /\ executed = commands
          /\ \A p \in Prerequisites : InList(p, executed)

\* all commands have run, two prerequisites were added, and the command line
\* names a third one after a later command
C19_Witness ==
    /\ mpc = "done"
    /\ Len(Added) >= 2
    /\ \E j, k \in 1..Len(requested) :
          /\ j < k
          /\ requested[k] \in Prerequisites
          /\ Position(requested[j]) > Position(requested[k])

(***************************************************************************)
(* Claims about the power flow solver                                      *)
(***************************************************************************)
\* the attempts in their order: each configured algorithm with the standard settings,
\* 'nr' and 'gs' relaxed, 'nr' after the DC run
AttemptOrder ==
    [i \in 1..Len(config.ALGORITHM_SEQUENCE) |->
        <<config.ALGORITHM_SEQUENCE[i], "standard">>]
    \o <<<<"nr", "relaxed">>, <<"gs", "relaxed">>, <<"nr", "dc">>>>

\* the attempts made are the first ones of the order, and only the last has converged
AttemptsInOrder ==
    /\ Len(attempts) <= Len(AttemptOrder)
    /\ \A k \in 1..Len(attempts) :
          /\ <<attempts[k].alg, attempts[k].settings>> = AttemptOrder[k]
          /\ attempts[k].outcome = "converged" => k = Len(attempts)

SomeConverged == \E k \in 1..Len(attempts) : attempts[k].outcome = "converged"

\* C20: solve makes its attempts in the fixed order, stops at the first that converges,
\* and ends by returning True with converged = True exactly when some attempt converged,
\* False with every attempt made otherwise; an attempt that raises counts as not
\* converged.
C20_SolveFallbackOrder ==
    /\ AttemptsInOrder
    /\ spc = "ended" =>
          /\ solve_result \in {"True", "False"}
          /\ solve_result = "True" <=> SomeConverged
          /\ self_converged <=> SomeConverged
          /\ solve_result = "False" => Len(attempts) = Len(AttemptOrder)

\* the same for the config modules that define ALGORITHM_SEQUENCE
SolveFallbackOrderWhenConfigured ==
    "ALGORITHM_SEQUENCE" \in config.names => C20_SolveFallbackOrder

(***************************************************************************)
(* Claims about the external grids and the repair passes                   *)
(***************************************************************************)
\* some bus carries more than one external grid
DuplicateExternalGrid(n) ==
    \E i, j \in 1..Len(n.ext_grid) : i # j /\ n.ext_grid[i] = n.ext_grid[j]

\* C21: after the construction of the network and the repair passes the network has at
\* most one main-slack external grid, and a bus that carries more than one external
\* grid has been reported as an issue.
C21_AtMostOneMainSlack ==
    kpc = "returned" =>
        /\ Len(checked_net.ext_grid) <= 1
        /\ DuplicateExternalGrid(checked_net) =>
              InList("duplicate_external_grids", issues_found)

\* the pass _check_external_grid_conflicts is taken
IsExternalGridPass ==
    kpc = "external_grid_conflicts" /\ kpc' = "generator_voltage_conflicts"

\* C22: after _check_external_grid_conflicts no PV generator is on a bus that hosts an
\* external grid: the generators on such buses are removed and listed in
\* skipped_elements, and the other generators, the PQ generators, the loads, the
\* external grids and the other tables are as before.
C22_NoPvGeneratorOnSlackBus ==
    [][IsExternalGridPass =>
          LET hosts   == Range(checked_net.ext_grid)
              removed == {g \in checked_net.gen : g.bus \in hosts}
          IN  /\ \A g \in checked_net'.gen : g.bus \notin Range(checked_net'.ext_grid)
              /\ checked_net'.gen = checked_net.gen \ removed
              /\ skipped_elements'.generators =
                    skipped_elements.generators \cup {g.index : g \in removed}
              /\ skipped_elements'.lines = skipped_elements.lines
              /\ skipped_elements'.transformers = skipped_elements.transformers
              /\ checked_net' = [checked_net EXCEPT !.gen = checked_net'.gen]
              /\ removed # {} <=> issues_found' # issues_found]_vars

\* the pass has removed a generator from a slack bus and has kept another generator
C22_Witness ==
    /\ kpc = "generator_voltage_conflicts"
    /\ skipped_elements.generators # {}
    /\ checked_net.gen # {}
    /\ checked_net.ext_grid # <<>>

\* a pass is about to run for the second time in a row
SecondApplication ==
    /\ kpc \in {PassOrder[i] : i \in 1..(Len(PassOrder) - 1)}
    /\ check_result = <<kpc>>

\* C23: each of the five repair passes, applied a second time directly after the first,
\* leaves every table of the network as it is and records no removal; the only thing a
\* second application adds is the issue of a failed connectivity check, on a network
\* without buses.
C23_PassesIdempotent ==
    [][SecondApplication =>
          /\ checked_net' = checked_net
          /\ skipped_elements' = skipped_elements
          /\ issues_found' # issues_found =>
                /\ checked_net.bus = {}
                /\ kpc = "islands"]_vars

\* a pass that removed something has run twice: the second run is over and the first
\* one had removed a line, a transformer or a generator, or an island
C23_Witness ==
    /\ kpc \in {PassOrder[i] : i \in 2..Len(PassOrder)}
    /\ check_result = <<PassOrder[(CHOOSE i \in 2..Len(PassOrder) : PassOrder[i] = kpc) - 1]>>
    /\ \/ check_result[1] = "islands" /\ issues_found = <<"islands_removed">>
       \/ check_result[1] = "zero_impedance_lines" /\ skipped_elements.lines # {}
       \/ check_result[1] = "transformer_issues" /\ skipped_elements.transformers # {}
       \/ check_result[1] = "external_grid_conflicts" /\ skipped_elements.generators # {}
       \/ /\ check_result[1] = "generator_voltage_conflicts"
          /\ InList("conflicting_setpoints_resolved", issues_found)

(***************************************************************************)
(* Claims about the HVDC classification                                    *)
(***************************************************************************)
\* cables // (circuits or 1) over the fields of the record
CablesPerCircuit ==
    SumSeq(rec.cables) \div (IF SumSeq(rec.circuits) # 0 THEN SumSeq(rec.circuits) ELSE 1)

\* one of the voltages of the record is 110, 220 or 380 kV
HasStandardVoltage == \E i \in DOMAIN rec.voltages : rec.voltages[i] \in StdVoltages

\* the constructor has come past line 250
TypeDecided == "type" \in DOMAIN conn

IsHvdc == TypeDecided /\ conn.type \in {"HVDC_LINE", "HVDC_CABLE"}

\* C24 as stated: a connection is HVDC only when its frequency field is "0", its cables
\* per circuit are not 3 and none of its voltages is a standard AC voltage.
C24_HvdcNeedsBothConditions ==
    IsHvdc =>
        /\ rec.frequency = <<F0>>
        /\ CablesPerCircuit # 3
        /\ ~HasStandardVoltage

\* C24 amended: a connection is HVDC exactly when its frequency field is "0" and it is
\* not the case that its cables per circuit are 3 and one of its voltages is a standard
\* AC voltage; a line becomes HVDC_LINE, any other connection HVDC_CABLE.
C24_HvdcUnlessThreePhaseAc ==
    TypeDecided =>
        /\ IsHvdc <=> /\ rec.frequency = <<F0>>
                      /\ ~(CablesPerCircuit = 3 /\ HasStandardVoltage)
        /\ IsHvdc => (conn.type = "HVDC_LINE" <=> rec.type = "LINE")
        /\ ~IsHvdc => conn.type = rec.type

\* a registered HVDC cable with a standard AC voltage
C24_Witness ==
    /\ conn.pc = "registered"
    /\ conn.type = "HVDC_CABLE"
    /\ HasStandardVoltage

(***************************************************************************)
(* Claims about the resolution of the connection points                    *)
(***************************************************************************)
EndTypes == {"START", "END"}

\* the point and the node of an end of a connection
PointOfEnd(c, e) == IF e = "START" THEN conns[c].startPoint ELSE conns[c].endPoint
NodeOfEnd(c, e)  == IF e = "START" THEN conns[c].startNode ELSE conns[c].endNode

\* the for loop of lines 340-389 has gone through all connection points
ResolutionLoopOver == tpc = "resolve" /\ ci > Len(connpoint_list)

\* C25: after the resolution loop every connection end with a substation within
\* MAX_DISTANCE_SUBSTATION_M is attached to a nearest such substation, never to a branch.
C25_EndNearSubstationIsAttachedToIt ==
    ResolutionLoopOver =>
        \A c \in DOMAIN conns, e \in EndTypes :
            NearSubs(PointOfEnd(c, e), nodes) # {} =>
                NodeOfEnd(c, e) \in Closest(PointOfEnd(c, e),
                                            NearSubs(PointOfEnd(c, e), nodes), nodes)

\* the ends of two different connections lie within MAX_DISTANCE_BRANCH_M of each other
EndsAdjacent(c, e, d, f) ==
    /\ c # d
    /\ Dist(PointOfEnd(c, e), PointOfEnd(d, f)) <= MAX_DISTANCE_BRANCH_M

\* C26: after the resolution loop any two ends of different connections that lie within
\* MAX_DISTANCE_BRANCH_M of each other are attached to the same vertex.
C26_AdjacentEndsShareVertex ==
    ResolutionLoopOver =>
        \A c, d \in DOMAIN conns, e, f \in EndTypes :
            EndsAdjacent(c, e, d, f) => NodeOfEnd(c, e) = NodeOfEnd(d, f)

\* one iteration of the circuit-consumption loop (connection.py:317-419)
LoopIteration == conn.pc = "loop" /\ conn.remaining_circuits > 0 /\ conn' # conn

\* C27: every iteration of the circuit-consumption loop strictly decreases
\* remaining_cables and remaining_circuits or raises, and an iteration that
\* starts with no cables left while circuits are still to be emitted raises
\* CircuitCountError (PowerFrequencyError when no frequency fits).
C27_LoopDecreasesBothOrRaises ==
    [][LoopIteration =>
         IF conn.remaining_cables <= 0
         THEN conn'.pc = "CircuitCountError"
         ELSE \/ conn'.pc # "loop"
              \/ /\ conn'.pc = "loop"
                 /\ conn'.remaining_cables < conn.remaining_cables
                 /\ conn'.remaining_circuits < conn.remaining_circuits]_vars


(***************************************************************************)
(* Claims about the transformer registry                                   *)
(***************************************************************************)
\* C28: the keys of Transformer._all are exactly the transformer ids listed by
\* the substations of the Node registry: no transformer of a deleted or
\* replaced substation remains and no listed one is missing.
C28_RegistryIsUnionOfLists ==
    DOMAIN Transformer_all =
        UNION {Range(substations[id].transformers) : id \in DOMAIN substations}


(***************************************************************************)
(* Claims about OPFEngine._solve_opf                                       *)
(***************************************************************************)
\* C29: _solve_opf returns True only if pp.runopp itself reported convergence
\* (not on the strength of the warm-start power flow), and it returns False
\* when pp.runopp raised.
C29_TrueOnlyIfOpfConverged ==
    qpc = "returned" =>
        /\ opf_result = "True" => solver_report = "converged"
        /\ solver_report = "raised" => opf_result = "False"


(***************************************************************************)
(* Claims about the registries under the constructors                      *)
(***************************************************************************)
Registries ==
    <<conns, connpoint_list, connpoint_map, nodes, sub_point_list, sub_point_map,
      Transformer_all>>

ClaimedErrors ==
    {"NoVoltageError", "CircuitCountError", "PowerFrequencyError", "NoValidCircuitError",
     "FilteredItem", "AlreadyExistsException"}

\* C30: a construction that fails with one of the listed errors leaves every
\* registry as it was, and connpoint_list always holds exactly two entries per
\* registered connection.
C30_FailedConstructionChangesNothing ==
    [][/\ construction'.raised \in ClaimedErrors => UNCHANGED Registries
       /\ Len(connpoint_list') = 2 * Cardinality(DOMAIN conns')]_vars

====
